---- MODULE Spec2Model ----
(***************************************************************************)
(* Model of the season-statistics engine of app/server.js: the matchup     *)
(* extractors, the season fold of collectSeasonStats, the week probe of    *)
(* fetchScoreboardWeeks, the TTL caches and the three JSON endpoints.      *)
(*                                                                         *)
(* Numbers that the code keeps in halves (0.5 of a win-equivalent) are     *)
(* stored doubled: winEquivalentsByCategory holds 2 * the JavaScript       *)
(* value, so 1 stands for 0.5 and 2 for 1.0.                               *)
(***************************************************************************)
EXTENDS Integers, Sequences, FiniteSets, TLC

VARIABLES
  \* ---- one request: the fold over the matchups of the collected weeks
  endpoint,                  \* which handler serves the request
  pc,                        \* "fold" while matchups are folded, "done" after the response
  status,                    \* HTTP status of the response, 0 before it
  settingsOk,                \* the settings fetch returns parsable JSON
  standingsOk,               \* the standings fetch returns parsable JSON
  catalog,                   \* the categories getStatCategories returns
  cur,                       \* the matchup folded by the last step
  nFolded,                   \* matchups folded so far
  anyUsable,                 \* some folded matchup had two keys and a decided total > 0
  categoryIds,               \* collectSeasonStats: Set of category ids, insertion order
  totalsByTeam,
  outcomesByTeam,
  marginsByTeam,
  totalsByCategory,
  winEquivalentsByCategory,  \* doubled
  gamesByCategory,
  teamDir,                   \* weekly-matrix: the team directory, key -> name
  rows,                      \* weekly-matrix: the WeeklyRow list
  csTotalsByTeam,            \* category-stats: its own totalsByTeam
  csOutcomesByTeam,          \* category-stats: its own outcomesByTeam
  \* ---- fetchScoreboardWeeks
  from, to,                  \* the probed range
  w,                         \* loop variable
  weeks,                     \* collected weeks (week numbers)
  sawAny,
  fpc,                       \* "loop" | "done"
  fetched,                   \* history: the weeks fetched, in order
  resp,                      \* history: the response of each fetched week
  \* ---- TTL caches
  now,                       \* Date.now(), in minutes
  cache,                     \* cache name -> key -> {value, until}
  calls,                     \* calls of the cached operations so far
  ret,                       \* history: the last return of a cached operation
  computes,                  \* history: recomputations started, per cache
  accesses,                  \* history: lookups, per cache
  \* ---- one application of a helper to a parsed payload
  heap,                      \* the arrays and objects of the payload, by identity
  arg,                       \* the argument: a scalar or a reference into heap
  picks,                     \* deepFindFirst: the nodes its predicate answers on
  fn,                        \* the helper applied, "none" before
  out,                       \* what it returned
  trace,                     \* history: the nodes the predicate was evaluated on
  \* ---- two concurrent calls of collectSeasonStats with one cache key
  upstream,                  \* what Yahoo answers during the behaviour
  rpc,                       \* call -> the await a call is suspended at
  local,                     \* call -> its local variables
  returned                   \* call -> what it returned or threw

reqVars == <<endpoint, pc, status, settingsOk, standingsOk, catalog, cur, nFolded, anyUsable>>
accVars == <<categoryIds, totalsByTeam, outcomesByTeam, marginsByTeam,
             totalsByCategory, winEquivalentsByCategory, gamesByCategory>>
epVars == <<teamDir, rows, csTotalsByTeam, csOutcomesByTeam>>
fetchVars == <<from, to, w, weeks, sawAny, fpc, fetched, resp>>
cacheVars == <<now, cache, calls, ret, computes, accesses>>
walkVars == <<heap, arg, picks, fn, out, trace>>
raceVars == <<upstream, rpc, local, returned>>
vars == <<reqVars, accVars, epVars, fetchVars, cacheVars, walkVars, raceVars>>

-----------------------------------------------------------------------------
(* Bounds *)
MaxMatchups == 2
MaxWeek == 4
MaxSlack == 1
MaxCalls == 2

-----------------------------------------------------------------------------
(* JavaScript Map as a function with an explicit domain *)
EmptyMap == [x \in {} |-> 0]
Has(map, k) == k \in DOMAIN map
Get(map, k, d) == IF k \in DOMAIN map THEN map[k] ELSE d
Put(map, k, v) == [x \in (DOMAIN map) \cup {k} |-> IF x = k THEN v ELSE map[x]]

RECURSIVE SumSeq(_)
SumSeq(s) == IF s = <<>> THEN 0 ELSE Head(s) + SumSeq(Tail(s))

RECURSIVE SumOver(_, _)
SumOver(S, f) ==
  IF S = {} THEN 0
  ELSE LET x == CHOOSE y \in S : TRUE IN f[x] + SumOver(S \ {x}, f)

(* JSON scalars of the upstream payload *)
Null == [tag |-> "null", n |-> 0, s |-> ""]
Num(n) == [tag |-> "num", n |-> n, s |-> ""]
Str(s) == [tag |-> "str", n |-> 0, s |-> s]
Bool(b) == [tag |-> "bool", n |-> IF b THEN 1 ELSE 0, s |-> ""]

Teams == {"t1", "t2", "t3"}
Cats == {"5", "9"}
NumRange == -2 .. 4

(* String(number) and Number(string) on the numbers of the model *)
StringOfNumber(n) ==
  CASE n = -2 -> "-2" [] n = -1 -> "-1" [] n = 0 -> "0" [] n = 1 -> "1"
    [] n = 2 -> "2" [] n = 3 -> "3" [] n = 4 -> "4" [] n = 5 -> "5"
    [] n = 9 -> "9" [] OTHER -> "NaN"

IsNumeric(s) == \E n \in NumRange \cup {5, 9} : StringOfNumber(n) = s
NumberOfString(s) == CHOOSE n \in NumRange \cup {5, 9} : StringOfNumber(n) = s

ToLowerCase(s) == IF s \in {"true", "True", "TRUE"} THEN "true" ELSE s

(* yahooScalar on a scalar leaf: the string it returns, or Null *)
yahooScalar(value) ==
  CASE value.tag = "null" -> Null
    [] value.tag = "str" -> value
    [] value.tag = "num" -> Str(StringOfNumber(value.n))
    [] value.tag = "bool" -> IF value.n = 1 THEN Str("1") ELSE Str("0")

(* findYahooValue(node, key) on a flat node: the scalar of the field *)
findYahooValue(node, key) == yahooScalar(node[key])

(* JavaScript truthiness of a yahooScalar result *)
Truthy(v) == v.tag = "str" /\ v.s # ""

parseStatValue(raw) ==
  IF raw.tag = "null" \/ (raw.tag = "str" /\ raw.s = "") THEN 0
  ELSE IF raw.tag = "num" THEN raw.n
  ELSE IF IsNumeric(raw.s) THEN NumberOfString(raw.s) ELSE 0

-----------------------------------------------------------------------------
(* A matchup of a week payload.                                            *)
(*   strs         the team-key strings met by the walk of its teams        *)
(*                subtree, in encounter order                              *)
(*   teamNodes    its team nodes in pre-order, each with a team_key, a     *)
(*                name and the elements of team_stats.stats                *)
(*   stat_winners absent, or the list of stat_winner nodes                 *)

RECURSIVE Distinct(_, _)
Distinct(s, acc) ==
  IF s = <<>> THEN acc
  ELSE IF \E i \in 1 .. Len(acc) : acc[i] = Head(s)
       THEN Distinct(Tail(s), acc)
       ELSE Distinct(Tail(s), Append(acc, Head(s)))

(* the first two matches, repeated or not *)
extractTwoTeamKeysWithRepeats(m) ==
  SubSeq(m.strs, 1, IF Len(m.strs) < 2 THEN Len(m.strs) ELSE 2)

extractTwoTeamKeysFromMatchup(m) ==
  LET keys == Distinct(m.strs, <<>>)
  IN SubSeq(keys, 1, IF Len(keys) < 2 THEN Len(keys) ELSE 2)

(* the decided counts; isNull when the matchup has no stat_winners *)
RECURSIVE CountWinners(_, _, _, _)
CountWinners(winners, keyA, keyB, sum) ==
  IF winners = <<>> THEN sum
  ELSE LET wn == Head(winners)
           tied == wn.is_tied = Num(1) \/ wn.is_tied = Str("1") \/ wn.is_tied = Bool(TRUE)
           next == IF tied THEN [sum EXCEPT !.ties = @ + 1]
                   ELSE IF wn.winner_team_key = Str(keyA) THEN [sum EXCEPT !.a = @ + 1]
                   ELSE IF wn.winner_team_key = Str(keyB) THEN [sum EXCEPT !.b = @ + 1]
                   ELSE sum
       IN CountWinners(Tail(winners), keyA, keyB, next)

winsFromStatWinners(m, keyA, keyB) ==
  IF m.stat_winners.absent
  THEN [isNull |-> TRUE, a |-> 0, b |-> 0, ties |-> 0, total |-> 0]
  ELSE LET c == CountWinners(m.stat_winners.list, keyA, keyB, [a |-> 0, b |-> 0, ties |-> 0])
       IN [isNull |-> FALSE, a |-> c.a, b |-> c.b, ties |-> c.ties,
           total |-> c.a + c.b + c.ties]

(* {statId, winnerKey, isTied} of every stat_winner node with a stat_id;   *)
(* winnerKey "" stands for null                                            *)
RECURSIVE DetailedOf(_)
DetailedOf(list) ==
  IF list = <<>> THEN <<>>
  ELSE LET node == Head(list)
           statId == findYahooValue(node, "stat_id")
           tiedVal == findYahooValue(node, "is_tied")
           isTied == tiedVal.tag = "str" /\ (tiedVal.s = "1" \/ ToLowerCase(tiedVal.s) = "true")
           winnerKey == findYahooValue(node, "winner_team_key")
       IN IF ~Truthy(statId) THEN DetailedOf(Tail(list))
          ELSE <<[statId |-> statId.s,
                  winnerKey |-> IF Truthy(winnerKey) THEN winnerKey.s ELSE "",
                  isTied |-> isTied]>> \o DetailedOf(Tail(list))

extractStatWinnersDetailed(m) ==
  IF m.stat_winners.absent THEN <<>> ELSE DetailedOf(m.stat_winners.list)

(* index in m.teamNodes of the first node whose team_key is teamKey, 0 for null *)
findTeamNode(m, teamKey) ==
  LET hits == {i \in 1 .. Len(m.teamNodes) :
                 LET key == findYahooValue(m.teamNodes[i], "team_key")
                 IN Truthy(key) /\ key.s = teamKey}
  IN IF hits = {} THEN 0 ELSE CHOOSE i \in hits : \A j \in hits : i <= j

(* the ids of the stat nodes of a team node that have a stat_id, in order *)
RECURSIVE StatIdsOf(_)
StatIdsOf(stats) ==
  IF stats = <<>> THEN <<>>
  ELSE LET statId == findYahooValue(Head(stats), "stat_id")
       IN IF Truthy(statId) THEN <<statId.s>> \o StatIdsOf(Tail(stats))
          ELSE StatIdsOf(Tail(stats))

(* statMap of a team node: stat id -> parsed value, later nodes overwrite *)
RECURSIVE StatMapOf(_, _)
StatMapOf(stats, statMap) ==
  IF stats = <<>> THEN statMap
  ELSE LET statNode == Head(stats)
           statId == findYahooValue(statNode, "stat_id")
           found == findYahooValue(statNode, "value")
           rawValue == IF found.tag = "null" THEN Num(0) ELSE found
       IN IF ~Truthy(statId) THEN StatMapOf(Tail(stats), statMap)
          ELSE StatMapOf(Tail(stats), Put(statMap, statId.s, parseStatValue(rawValue)))

-----------------------------------------------------------------------------
(* collectSeasonStats: the body of the loop over the matchups *)

RECURSIVE AddIds(_, _)
AddIds(ids, more) ==
  IF more = <<>> THEN ids
  ELSE IF \E i \in 1 .. Len(ids) : ids[i] = Head(more)
       THEN AddIds(ids, Tail(more))
       ELSE AddIds(Append(ids, Head(more)), Tail(more))

(* Usable without its second gate: an undecided matchup is aggregated *)
UsableWithoutTotalGate(m) ==
  LET keys == extractTwoTeamKeysFromMatchup(m)
  IN Len(keys) = 2 /\ ~winsFromStatWinners(m, keys[1], keys[2]).isNull

(* the two gates in front of the aggregation: two team keys and a decided *)
(* total other than 0                                                      *)
Usable(m) ==
  LET keys == extractTwoTeamKeysFromMatchup(m)
  IN /\ Len(keys) = 2
     /\ LET summary == winsFromStatWinners(m, keys[1], keys[2])
        IN ~summary.isNull /\ summary.total # 0

(* teamStatsMap: key -> statMap, for the keys whose team node is found *)
TeamStatsMapOf(m, keys) ==
  [k \in {keys[i] : i \in {j \in 1 .. Len(keys) : findTeamNode(m, keys[j]) # 0}} |->
     StatMapOf(m.teamNodes[findTeamNode(m, k)].stats, EmptyMap)]

(* categoryIds.add(statId) for the stat nodes of the located team nodes *)
RECURSIVE SeenIds(_, _, _)
SeenIds(ids, m, keys) ==
  IF keys = <<>> THEN ids
  ELSE LET node == findTeamNode(m, Head(keys))
       IN IF node = 0 THEN SeenIds(ids, m, Tail(keys))
          ELSE SeenIds(AddIds(ids, StatIdsOf(m.teamNodes[node].stats)), m, Tail(keys))

(* addToMap for every entry of a statMap *)
AddStatMap(map, statMap) ==
  [c \in (DOMAIN map) \cup (DOMAIN statMap) |-> Get(map, c, 0) + Get(statMap, c, 0)]

(* AddTotalsByTeam that adds the stat map of the first team only *)
AddTotalsByTeamFirstKey(tbt, keys, tsm) ==
  Put(tbt, keys[1], AddStatMap(Get(tbt, keys[1], EmptyMap), tsm[keys[1]]))

AddTotalsByTeam(tbt, keys, tsm) ==
  LET one(map, key) == Put(map, key, AddStatMap(Get(map, key, EmptyMap), tsm[key]))
  IN one(one(tbt, keys[1]), keys[2])

(* AddTotalsByCategory that forgets the second team *)
AddTotalsByCategoryFirstTeam(tbc, keys, tsm) == AddStatMap(tbc, tsm[keys[1]])

AddTotalsByCategory(tbc, keys, tsm) ==
  AddStatMap(AddStatMap(tbc, tsm[keys[1]]), tsm[keys[2]])

(* the margins of one matchup appended to the lists of both teams *)
AddMargins(mbt, keys, tsm) ==
  LET statIds == (DOMAIN tsm[keys[1]]) \cup (DOMAIN tsm[keys[2]])
      aVal(c) == Get(tsm[keys[1]], c, 0)
      bVal(c) == Get(tsm[keys[2]], c, 0)
      push(map, key, sign) ==
        IF statIds = {} THEN map
        ELSE Put(map, key,
               [c \in (DOMAIN Get(map, key, EmptyMap)) \cup statIds |->
                  IF c \in statIds
                  THEN Append(Get(Get(map, key, EmptyMap), c, <<>>), sign * (aVal(c) - bVal(c)))
                  ELSE Get(map, key, EmptyMap)[c]])
  IN push(push(mbt, keys[1], 1), keys[2], -1)

(* AddGames that counts a game for each of the two teams *)
AddGamesPerTeam(gbc, keys, tsm) ==
  LET statIds == (DOMAIN tsm[keys[1]]) \cup (DOMAIN tsm[keys[2]])
  IN [c \in (DOMAIN gbc) \cup statIds |-> Get(gbc, c, 0) + IF c \in statIds THEN 2 ELSE 0]

AddGames(gbc, keys, tsm) ==
  LET statIds == (DOMAIN tsm[keys[1]]) \cup (DOMAIN tsm[keys[2]])
  IN [c \in (DOMAIN gbc) \cup statIds |-> Get(gbc, c, 0) + IF c \in statIds THEN 1 ELSE 0]

NoRecord == [wins |-> 0, losses |-> 0, ties |-> 0]

(* ensureOutcomeRecord followed by rec[field] += 1 *)
BumpOutcome(obt, teamKey, statId, field) ==
  LET teamMap == Get(obt, teamKey, EmptyMap)
      rec == Get(teamMap, statId, NoRecord)
  IN Put(obt, teamKey, Put(teamMap, statId, [rec EXCEPT ![field] = @ + 1]))

(* CreditItem that credits the loss to the winner *)
CreditItemLossToWinner(st, keys, item) ==
  IF item.isTied \/ item.winnerKey = ""
  THEN [o |-> BumpOutcome(BumpOutcome(st.o, keys[1], item.statId, "ties"),
                          keys[2], item.statId, "ties"),
        we |-> Put(st.we, item.statId, Get(st.we, item.statId, 0) + 1 + 1)]
  ELSE LET winner == IF keys[1] = item.winnerKey THEN keys[1]
                     ELSE IF keys[2] = item.winnerKey THEN keys[2] ELSE ""
           loser == IF keys[1] = item.winnerKey THEN keys[1] ELSE keys[2]
           o1 == IF winner # "" THEN BumpOutcome(st.o, winner, item.statId, "wins") ELSE st.o
           we1 == IF winner # ""
                  THEN Put(st.we, item.statId, Get(st.we, item.statId, 0) + 2)
                  ELSE st.we
       IN [o |-> BumpOutcome(o1, loser, item.statId, "losses"), we |-> we1]

(* CreditItem that adds the 0.5 of a tie once, outside the loop over keys *)
CreditItemTieOnce(st, keys, item) ==
  IF item.isTied \/ item.winnerKey = ""
  THEN [o |-> BumpOutcome(BumpOutcome(st.o, keys[1], item.statId, "ties"),
                          keys[2], item.statId, "ties"),
        we |-> Put(st.we, item.statId, Get(st.we, item.statId, 0) + 1)]
  ELSE LET winner == IF keys[1] = item.winnerKey THEN keys[1]
                     ELSE IF keys[2] = item.winnerKey THEN keys[2] ELSE ""
           loser == IF keys[1] # item.winnerKey THEN keys[1] ELSE keys[2]
           o1 == IF winner # "" THEN BumpOutcome(st.o, winner, item.statId, "wins") ELSE st.o
           we1 == IF winner # ""
                  THEN Put(st.we, item.statId, Get(st.we, item.statId, 0) + 2)
                  ELSE st.we
       IN [o |-> BumpOutcome(o1, loser, item.statId, "losses"), we |-> we1]

(* one entry of the stat-winner list credited to outcomesByTeam (o) and    *)
(* winEquivalentsByCategory (we, doubled)                                  *)
CreditItem(st, keys, item) ==
  IF item.isTied \/ item.winnerKey = ""
  THEN [o |-> BumpOutcome(BumpOutcome(st.o, keys[1], item.statId, "ties"),
                          keys[2], item.statId, "ties"),
        we |-> Put(st.we, item.statId, Get(st.we, item.statId, 0) + 1 + 1)]
  ELSE LET winner == IF keys[1] = item.winnerKey THEN keys[1]
                     ELSE IF keys[2] = item.winnerKey THEN keys[2] ELSE ""
           loser == IF keys[1] # item.winnerKey THEN keys[1] ELSE keys[2]
           o1 == IF winner # "" THEN BumpOutcome(st.o, winner, item.statId, "wins") ELSE st.o
           we1 == IF winner # ""
                  THEN Put(st.we, item.statId, Get(st.we, item.statId, 0) + 2)
                  ELSE st.we
       IN [o |-> BumpOutcome(o1, loser, item.statId, "losses"), we |-> we1]

RECURSIVE CreditAll(_, _, _)
CreditAll(st, keys, detailed) ==
  IF detailed = <<>> THEN st
  ELSE CreditAll(CreditItem(st, keys, Head(detailed)), keys, Tail(detailed))

(* the accumulators after one more matchup *)
CollectMatchup(acc, m) ==
  LET keys == extractTwoTeamKeysFromMatchup(m)
  IN IF ~Usable(m) THEN acc
     ELSE LET tsm == TeamStatsMapOf(m, keys)
              ids == SeenIds(acc.categoryIds, m, keys)
          IN IF ~(Has(tsm, keys[1]) /\ Has(tsm, keys[2]))
             THEN [acc EXCEPT !.categoryIds = ids]
             ELSE LET cr == CreditAll([o |-> acc.outcomesByTeam,
                                       we |-> acc.winEquivalentsByCategory],
                                      keys, extractStatWinnersDetailed(m))
                  IN [categoryIds |-> ids,
                      totalsByTeam |-> AddTotalsByTeam(acc.totalsByTeam, keys, tsm),
                      outcomesByTeam |-> cr.o,
                      marginsByTeam |-> AddMargins(acc.marginsByTeam, keys, tsm),
                      totalsByCategory |-> AddTotalsByCategory(acc.totalsByCategory, keys, tsm),
                      winEquivalentsByCategory |-> cr.we,
                      gamesByCategory |-> AddGames(acc.gamesByCategory, keys, tsm)]

(* a matchup that passes every continue of the loop body *)
Aggregated(m) ==
  /\ Usable(m)
  /\ LET keys == extractTwoTeamKeysFromMatchup(m)
     IN findTeamNode(m, keys[1]) # 0 /\ findTeamNode(m, keys[2]) # 0

-----------------------------------------------------------------------------
(* The matchups the weeks are drawn from *)

StatNode(id, v) == [stat_id |-> Str(id), value |-> v]
StatWinner(id, tied, key) == [stat_id |-> id, is_tied |-> tied, winner_team_key |-> key]

(* The shapes of the team part of a matchup: strs, the team_key and the    *)
(* name of each team node, the keys a winner may name (a and b the two     *)
(* teams, x a team that does not play in the matchup), and the stat and    *)
(* winner shapes the universe pairs it with                                *)
KeyShapes ==
  { [strs |-> <<"t1", "t1", "t2">>, nodeKeys |-> <<Str("t1"), Str("t2")>>,
     names |-> <<Str("Ones"), Str(" Twos ")>>,
     a |-> "t1", b |-> "t2", x |-> "t3", stats |-> {1, 2, 3}, winners |-> 0 .. 6],
    [strs |-> <<"t3", "t1">>, nodeKeys |-> <<Str("t3"), Str("t1")>>,
     names |-> <<Null, Str("Ones")>>,
     a |-> "t3", b |-> "t1", x |-> "t2", stats |-> {1, 2}, winners |-> {1, 2, 4}],
    [strs |-> <<"t2">>, nodeKeys |-> <<Str("t2")>>,
     names |-> <<Str("Twos")>>,
     a |-> "t2", b |-> "t1", x |-> "t3", stats |-> {1}, winners |-> {0, 2}],
    [strs |-> <<"t1", "t2">>, nodeKeys |-> <<Str("t1"), Null>>,
     names |-> <<Str("Ones"), Str("Twos")>>,
     a |-> "t1", b |-> "t2", x |-> "t3", stats |-> {1}, winners |-> {2, 4}] }

(* the stats of the first and of the second team node *)
StatShape(i) ==
  CASE i = 1 -> <<(<<StatNode("5", Str("2")), StatNode("9", Num(1))>>),
                  (<<StatNode("5", Str("1")), StatNode("9", Str("1"))>>)>>
    [] i = 2 -> <<(<<StatNode("5", Str("-1"))>>), (<<StatNode("5", Str("1"))>>)>>
    [] i = 3 -> <<(<<StatNode("5", Str("-"))>>), (<<StatNode("9", Num(2))>>)>>

(* the stat_winners of a matchup of key shape k *)
WinnerShape(k, i) ==
  CASE i = 0 -> [absent |-> TRUE, list |-> <<>>]
    [] i = 1 -> [absent |-> FALSE,
                 list |-> <<StatWinner(Str("5"), Num(0), Str(k.a)),
                            StatWinner(Str("9"), Num(0), Null)>>]
    [] i = 2 -> [absent |-> FALSE,
                 list |-> <<StatWinner(Str("5"), Null, Str(k.b)),
                            StatWinner(Num(9), Num(1), Null)>>]
    [] i = 3 -> [absent |-> FALSE,
                 list |-> <<StatWinner(Str("9"), Str("true"), Null)>>]
    [] i = 4 -> [absent |-> FALSE,
                 list |-> <<StatWinner(Str("5"), Null, Str(k.a)),
                            StatWinner(Str("9"), Null, Str(k.x))>>]
    [] i = 5 -> [absent |-> FALSE,
                 list |-> <<StatWinner(Null, Null, Str(k.b)),
                            StatWinner(Str("5"), Str("1"), Null)>>]
    [] i = 6 -> [absent |-> FALSE,
                 list |-> <<StatWinner(Str("5"), Bool(TRUE), Null)>>]

Matchups ==
  UNION { { [strs |-> k.strs,
             teamNodes |-> [i \in 1 .. Len(k.nodeKeys) |->
                              [team_key |-> k.nodeKeys[i], name |-> k.names[i],
                               stats |-> StatShape(st)[i]]],
             stat_winners |-> WinnerShape(k, sw)] : st \in k.stats, sw \in k.winners } :
          k \in KeyShapes }

NoMatchup == [strs |-> <<>>, teamNodes |-> <<>>, stat_winners |-> [absent |-> TRUE, list |-> <<>>]]

(* the catalogs getStatCategories may return *)
StatCategory(id, sortOrder, label) ==
  [id |-> id, name |-> label, display_name |-> label, sort_order |-> sortOrder]

CatalogOptions == { <<>>, <<StatCategory("9", Num(1), "SV")>> }

RECURSIVE IdsOf(_)
IdsOf(categories) ==
  IF categories = <<>> THEN <<>> ELSE <<Head(categories).id>> \o IdsOf(Tail(categories))

-----------------------------------------------------------------------------
(* String.prototype.trim on the names of the model *)
Trim(s) == IF s = " Twos " THEN "Twos" ELSE s

(* pickTeamName: the trimmed name of a team node, "" for null *)
pickTeamName(node) ==
  LET val == findYahooValue(node, "name")
  IN IF val.tag = "str" /\ Trim(val.s) # "" THEN Trim(val.s) ELSE ""

(* resolveTeamName: the name returned and the directory it leaves *)
resolveTeamName(dir, m, teamKey) ==
  IF Has(dir, teamKey) /\ dir[teamKey] # "" THEN [name |-> dir[teamKey], dir |-> dir]
  ELSE LET node == findTeamNode(m, teamKey)
           name == IF node = 0 THEN "" ELSE pickTeamName(m.teamNodes[node])
       IN IF name # "" THEN [name |-> name, dir |-> Put(dir, teamKey, name)]
          ELSE [name |-> teamKey, dir |-> dir]

(* MatrixMatchup whose rows name the team itself as the opponent *)
MatrixMatchupOwnName(st, m, week) ==
  LET keys == extractTwoTeamKeysFromMatchup(m)
  IN IF ~Usable(m) THEN st
     ELSE LET sw == winsFromStatWinners(m, keys[1], keys[2])
              aName == resolveTeamName(st.teamDir, m, keys[1])
              bName == resolveTeamName(aName.dir, m, keys[2])
              aRes == IF sw.a > sw.b THEN "W" ELSE IF sw.a < sw.b THEN "L" ELSE "T"
              bRes == IF sw.b > sw.a THEN "W" ELSE IF sw.b < sw.a THEN "L" ELSE "T"
          IN [teamDir |-> bName.dir,
              rows |-> st.rows \o
                << [week |-> week, team |-> aName.name, points |-> sw.a,
                    opp_points |-> sw.b, result |-> aRes, opp_name |-> bName.name],
                   [week |-> week, team |-> bName.name, points |-> sw.b,
                    opp_points |-> sw.a, result |-> bRes, opp_name |-> bName.name] >>]

(* GET /api/weekly-matrix: the body of its loop over the matchups of week  *)
(* week: the two rows of a decided matchup and the team directory after it *)
MatrixMatchup(st, m, week) ==
  LET keys == extractTwoTeamKeysFromMatchup(m)
  IN IF ~Usable(m) THEN st
     ELSE LET sw == winsFromStatWinners(m, keys[1], keys[2])
              aName == resolveTeamName(st.teamDir, m, keys[1])
              bName == resolveTeamName(aName.dir, m, keys[2])
              aRes == IF sw.a > sw.b THEN "W" ELSE IF sw.a < sw.b THEN "L" ELSE "T"
              bRes == IF sw.b > sw.a THEN "W" ELSE IF sw.b < sw.a THEN "L" ELSE "T"
          IN [teamDir |-> bName.dir,
              rows |-> st.rows \o
                << [week |-> week, team |-> aName.name, points |-> sw.a,
                    opp_points |-> sw.b, result |-> aRes, opp_name |-> bName.name],
                   [week |-> week, team |-> bName.name, points |-> sw.b,
                    opp_points |-> sw.a, result |-> bRes, opp_name |-> aName.name] >>]

(* GET /api/category-stats: the body of its loop over the matchups *)
RECURSIVE CsAddStats(_, _)
CsAddStats(totalsMap, stats) ==
  IF stats = <<>> THEN totalsMap
  ELSE LET statNode == Head(stats)
           statId == findYahooValue(statNode, "stat_id")
           found == findYahooValue(statNode, "value")
           rawValue == IF found.tag = "null" THEN Num(0) ELSE found
       IN IF ~Truthy(statId) THEN CsAddStats(totalsMap, Tail(stats))
          ELSE CsAddStats(Put(totalsMap, statId.s,
                              Get(totalsMap, statId.s, 0) + parseStatValue(rawValue)),
                          Tail(stats))

RECURSIVE CsTotals(_, _, _)
CsTotals(tbt, m, keys) ==
  IF keys = <<>> THEN tbt
  ELSE LET node == findTeamNode(m, Head(keys))
       IN IF node = 0 THEN CsTotals(tbt, m, Tail(keys))
          ELSE CsTotals(Put(tbt, Head(keys),
                            CsAddStats(Get(tbt, Head(keys), EmptyMap), m.teamNodes[node].stats)),
                        m, Tail(keys))

CsCreditItem(o, keys, item) ==
  LET winner == IF keys[1] = item.winnerKey THEN keys[1]
                ELSE IF keys[2] = item.winnerKey THEN keys[2] ELSE ""
  IN IF item.isTied \/ item.winnerKey = "" \/ winner = ""
     THEN BumpOutcome(BumpOutcome(o, keys[1], item.statId, "ties"), keys[2], item.statId, "ties")
     ELSE LET loser == IF keys[1] # winner THEN keys[1] ELSE keys[2]
          IN BumpOutcome(BumpOutcome(o, winner, item.statId, "wins"), loser, item.statId, "losses")

RECURSIVE CsCreditAll(_, _, _)
CsCreditAll(o, keys, detailed) ==
  IF detailed = <<>> THEN o
  ELSE CsCreditAll(CsCreditItem(o, keys, Head(detailed)), keys, Tail(detailed))

CategoryStatsMatchup(st, m) ==
  LET keys == extractTwoTeamKeysFromMatchup(m)
  IN IF ~Usable(m) THEN st
     ELSE [totalsByTeam |-> CsTotals(st.totalsByTeam, m, keys),
           outcomesByTeam |-> CsCreditAll(st.outcomesByTeam, keys, extractStatWinnersDetailed(m))]

-----------------------------------------------------------------------------
(* One request. The matchups of the collected weeks are folded one per     *)
(* step, in order; the request answers when they are exhausted. The weeks  *)
(* list is empty exactly when no matchup was folded.                       *)

Endpoints == {"weekly-matrix", "category-stats", "season-analytics"}
TeamDirOptions ==
  { EmptyMap, [k \in {"t1"} |-> "Alpha"], [k \in {"t1", "t2"} |-> "Alpha"] }

(* the matrix handler never fetches the catalog; the other two never     *)
(* consult the team directory in the fold                                  *)
Requests ==
  { [endpoint |-> "weekly-matrix", catalog |-> <<>>, teamDir |-> d] : d \in TeamDirOptions }
  \cup { [endpoint |-> e, catalog |-> c, teamDir |-> EmptyMap] :
           e \in {"category-stats", "season-analytics"}, c \in CatalogOptions }

Acc ==
  [categoryIds |-> categoryIds, totalsByTeam |-> totalsByTeam,
   outcomesByTeam |-> outcomesByTeam, marginsByTeam |-> marginsByTeam,
   totalsByCategory |-> totalsByCategory,
   winEquivalentsByCategory |-> winEquivalentsByCategory,
   gamesByCategory |-> gamesByCategory]

FetchIdle ==
  /\ from = 1 /\ to = 1 /\ w = 1 /\ weeks = <<>> /\ sawAny = FALSE
  /\ fpc = "done" /\ fetched = <<>> /\ resp = <<>>

CacheNames == {"statCategories", "seasonStats", "matrix"}
NoValue == [for |-> <<>>, at |-> 0]
NoReturn == [op |-> "none", inputs |-> <<>>, kind |-> "none", value |-> NoValue, at |-> 0, until |-> 0]

CacheIdle ==
  /\ now = 0 /\ cache = [c \in CacheNames |-> EmptyMap] /\ calls = 0
  /\ ret = NoReturn
  /\ computes = [c \in CacheNames |-> 0] /\ accesses = [c \in CacheNames |-> 0]

NoOut == [v |-> Null, overflow |-> FALSE]

WalkIdle ==
  /\ heap = <<>> /\ arg = Null /\ picks = {} /\ fn = "none"
  /\ out = NoOut /\ trace = <<>>

RaceIdle == upstream = <<>> /\ rpc = <<>> /\ local = <<>> /\ returned = <<>>

Init ==
  /\ \E init \in Requests :
       endpoint = init.endpoint /\ catalog = init.catalog /\ teamDir = init.teamDir
  /\ pc = "fold" /\ status = 0 /\ settingsOk = TRUE /\ standingsOk = TRUE
  /\ cur = NoMatchup /\ nFolded = 0 /\ anyUsable = FALSE
  /\ categoryIds = IF endpoint = "weekly-matrix" THEN <<>> ELSE IdsOf(catalog)
  /\ totalsByTeam = EmptyMap /\ outcomesByTeam = EmptyMap /\ marginsByTeam = EmptyMap
  /\ totalsByCategory = EmptyMap /\ winEquivalentsByCategory = EmptyMap
  /\ gamesByCategory = EmptyMap
  /\ rows = <<>> /\ csTotalsByTeam = EmptyMap /\ csOutcomesByTeam = EmptyMap
  /\ FetchIdle /\ CacheIdle /\ WalkIdle /\ RaceIdle

Step(m) ==
  /\ pc = "fold" /\ nFolded < MaxMatchups
  /\ cur' = m /\ nFolded' = nFolded + 1
  /\ anyUsable' = (anyUsable \/ Usable(m))
  /\ UNCHANGED <<endpoint, pc, status, settingsOk, standingsOk, catalog>>
  /\ UNCHANGED <<fetchVars, cacheVars, walkVars, raceVars>>

(* collectSeasonStats, lines 608-688 *)
CollectSeasonStatsStep(m) ==
  /\ endpoint = "season-analytics"
  /\ Step(m)
  /\ LET acc == CollectMatchup(Acc, m)
     IN /\ categoryIds' = acc.categoryIds
        /\ totalsByTeam' = acc.totalsByTeam
        /\ outcomesByTeam' = acc.outcomesByTeam
        /\ marginsByTeam' = acc.marginsByTeam
        /\ totalsByCategory' = acc.totalsByCategory
        /\ winEquivalentsByCategory' = acc.winEquivalentsByCategory
        /\ gamesByCategory' = acc.gamesByCategory
  /\ UNCHANGED epVars

(* the weeks come in ascending order: a matchup belongs to the week of the *)
(* row before it or to a later one                                         *)
LastWeek(rws) == IF rws = <<>> THEN 1 ELSE rws[Len(rws)].week

WeeklyMatrixStep(m) ==
  /\ endpoint = "weekly-matrix"
  /\ Step(m)
  /\ \E week \in {LastWeek(rows), LastWeek(rows) + 1} :
       LET st == MatrixMatchup([teamDir |-> teamDir, rows |-> rows], m, week)
       IN teamDir' = st.teamDir /\ rows' = st.rows
  /\ UNCHANGED <<accVars, csTotalsByTeam, csOutcomesByTeam>>

CategoryStatsStep(m) ==
  /\ endpoint = "category-stats"
  /\ Step(m)
  /\ LET st == CategoryStatsMatchup([totalsByTeam |-> csTotalsByTeam,
                                     outcomesByTeam |-> csOutcomesByTeam], m)
     IN csTotalsByTeam' = st.totalsByTeam /\ csOutcomesByTeam' = st.outcomesByTeam
  /\ categoryIds' = categoryIds
  /\ UNCHANGED <<totalsByTeam, outcomesByTeam, marginsByTeam, totalsByCategory,
                 winEquivalentsByCategory, gamesByCategory, teamDir, rows>>

Respond(code) ==
  /\ pc = "fold"
  /\ pc' = "done" /\ status' = code
  /\ UNCHANGED <<endpoint, catalog, cur, nFolded, anyUsable>>
  /\ UNCHANGED <<accVars, epVars, fetchVars, cacheVars, walkVars, raceVars>>

(* GET /api/weekly-matrix, line 789 and 804 *)
RespondWeeklyMatrix ==
  /\ endpoint = "weekly-matrix"
  /\ UNCHANGED <<settingsOk, standingsOk>>
  /\ Respond(IF rows = <<>> THEN 404 ELSE 200)

(* GET /api/category-stats, lines 819-822 and 912-957 *)
RespondCategoryStats ==
  /\ endpoint = "category-stats"
  /\ \E ok \in BOOLEAN :
       /\ settingsOk' = ok
       /\ Respond(IF nFolded = 0 THEN 404
                  ELSE IF ~ok THEN 500
                  ELSE IF (DOMAIN csTotalsByTeam) \cup (DOMAIN csOutcomesByTeam) = {} THEN 404
                  ELSE 200)
  /\ UNCHANGED standingsOk

(* GET /api/season-analytics, lines 970-971 and 1091-1106 *)
RespondSeasonAnalytics ==
  /\ endpoint = "season-analytics"
  /\ \E ok1 \in BOOLEAN, ok2 \in BOOLEAN :
       /\ settingsOk' = ok1 /\ standingsOk' = ok2
       /\ Respond(IF nFolded = 0 THEN 404
                  ELSE IF ~ok1 \/ ~ok2 THEN 500
                  ELSE 200)

Next ==
  \/ \E m \in Matchups : CollectSeasonStatsStep(m)
  \/ \E m \in Matchups : WeeklyMatrixStep(m)
  \/ \E m \in Matchups : CategoryStatsStep(m)
  \/ RespondWeeklyMatrix
  \/ RespondCategoryStats
  \/ RespondSeasonAnalytics

Spec == Init /\ [][Next]_vars

-----------------------------------------------------------------------------
(* GET /api/season-analytics: the efficiency (ebitda) delta of one team in *)
(* one category, as the fraction num / den: actual - expected with         *)
(* actual = wins + ties * 0.5 and                                          *)
(* expected = totalVolume > 0 ? (volume / totalVolume) * totalWins : 0     *)
OutcomeOf(obt, teamKey, statId) == Get(Get(obt, teamKey, EmptyMap), statId, NoRecord)

teamKeys == (DOMAIN totalsByTeam) \cup (DOMAIN outcomesByTeam) \cup (DOMAIN marginsByTeam)

EbitdaDelta(teamKey, statId) ==
  LET volume == Get(Get(totalsByTeam, teamKey, EmptyMap), statId, 0)
      rec == OutcomeOf(outcomesByTeam, teamKey, statId)
      actual2 == 2 * rec.wins + rec.ties
      totalVolume == Get(totalsByCategory, statId, 0)
      totalWins2 == Get(winEquivalentsByCategory, statId, 0)
  IN IF totalVolume > 0
     THEN [num |-> actual2 * totalVolume - volume * totalWins2, den |-> 2 * totalVolume]
     ELSE [num |-> actual2, den |-> 2]

(* the categories of the payload: the catalog ids and the ids seen *)
PayloadCategoryIds == {categoryIds[i] : i \in 1 .. Len(categoryIds)}

-----------------------------------------------------------------------------
(* Properties of the season fold *)

SeasonRequest == endpoint = "season-analytics"

(* the deltas of one category share their denominator, so their sum is the *)
(* sum of the numerators over it                                           *)
DeltaNumSum(c) == SumOver(teamKeys, [t \in teamKeys |-> EbitdaDelta(t, c).num])

(* entries of the stat-winner list of m in category c that satisfy P *)
EntriesOf(m, c, P(_)) ==
  LET d == extractStatWinnersDetailed(m)
  IN Cardinality({i \in 1 .. Len(d) : d[i].statId = c /\ P(d[i])})

KeysOf(m) == LET keys == extractTwoTeamKeysFromMatchup(m) IN {keys[i] : i \in 1 .. Len(keys)}

(* a step of the fold of collectSeasonStats over an aggregated matchup *)
AggregatingStep == SeasonRequest /\ nFolded' = nFolded + 1 /\ Aggregated(cur')

(* C1: after any fold, for every category the league-wide win-equivalent   *)
(* total equals gamesByCategory (win-equivalents are stored doubled).      *)
C1_WinEquivalentsEqualGames ==
  \A c \in Cats :
    Get(winEquivalentsByCategory, c, 0) = 2 * Get(gamesByCategory, c, 0)

(* C2 as claimed: for every category of the payload the efficiency deltas  *)
(* of all teams sum to 0, also when the league-wide total is 0.            *)
C2_DeltasSumToZero ==
  \A c \in PayloadCategoryIds : DeltaNumSum(c) = 0

(* C2 as amended: the deltas of a category sum to 0 when its league-wide   *)
(* total is positive; otherwise every expected value is 0 and the deltas   *)
(* sum to the league-wide win-equivalents of the category.                 *)
C2_DeltasSumToZeroWhenVolume ==
  \A c \in PayloadCategoryIds :
    IF Get(totalsByCategory, c, 0) > 0
    THEN DeltaNumSum(c) = 0
    ELSE DeltaNumSum(c) = Get(winEquivalentsByCategory, c, 0)

C2_Witness ==
  /\ SeasonRequest
  /\ \E c \in PayloadCategoryIds :
       /\ Get(totalsByCategory, c, 0) > 0
       /\ Get(winEquivalentsByCategory, c, 0) > 0
       /\ \E t \in teamKeys : EbitdaDelta(t, c).num # 0

(* C3: every non-tied entry whose winner is one of the two teams adds 1    *)
(* win to the winner, 1 loss to the other team and 1 win-equivalent in its *)
(* category, and touches no record of a team outside the matchup.          *)
C3_DecisiveEntryCredit ==
  [][AggregatingStep =>
       LET keys == extractTwoTeamKeysFromMatchup(cur')
           won(t, c) == EntriesOf(cur', c, LAMBDA e : ~e.isTied /\ e.winnerKey = t)
           rest(c) == EntriesOf(cur', c, LAMBDA e : e.isTied \/ e.winnerKey \notin KeysOf(cur'))
           opp(t) == IF t = keys[1] THEN keys[2] ELSE keys[1]
       IN /\ \A c \in Cats, t \in KeysOf(cur') :
               /\ OutcomeOf(outcomesByTeam', t, c).wins
                    = OutcomeOf(outcomesByTeam, t, c).wins + won(t, c)
               /\ rest(c) = 0 =>
                    /\ OutcomeOf(outcomesByTeam', t, c).losses
                         = OutcomeOf(outcomesByTeam, t, c).losses + won(opp(t), c)
                    /\ OutcomeOf(outcomesByTeam', t, c).ties
                         = OutcomeOf(outcomesByTeam, t, c).ties
                    /\ Get(winEquivalentsByCategory', c, 0)
                         = Get(winEquivalentsByCategory, c, 0)
                             + 2 * (won(keys[1], c) + won(keys[2], c))
          /\ \A t \in Teams \ KeysOf(cur') :
               Get(outcomesByTeam', t, EmptyMap) = Get(outcomesByTeam, t, EmptyMap)
  ]_vars

C3_Witness ==
  /\ SeasonRequest /\ nFolded = 2 /\ Aggregated(cur)
  /\ \E c \in Cats, t \in KeysOf(cur) :
       /\ EntriesOf(cur, c, LAMBDA e : ~e.isTied /\ e.winnerKey = t) = 1
       /\ EntriesOf(cur, c, LAMBDA e : e.isTied \/ e.winnerKey # t) = 0
       /\ OutcomeOf(outcomesByTeam, t, c).wins = 2

(* C4 as claimed: every tied entry adds 1 tie to each of the two teams and *)
(* 0.5 in total to the win-equivalents of its category.                    *)
C4_TiedEntryHalfCredit ==
  [][AggregatingStep =>
       LET tied(c) == EntriesOf(cur', c, LAMBDA e : e.isTied)
           rest(c) == EntriesOf(cur', c, LAMBDA e : ~e.isTied)
       IN \A c \in Cats :
            rest(c) = 0 =>
              /\ \A t \in KeysOf(cur') :
                   OutcomeOf(outcomesByTeam', t, c).ties
                     = OutcomeOf(outcomesByTeam, t, c).ties + tied(c)
              /\ Get(winEquivalentsByCategory', c, 0)
                   = Get(winEquivalentsByCategory, c, 0) + 1 * tied(c)
  ]_vars

(* C4 as amended: every tied entry adds 1 tie to each of the two teams and *)
(* 0.5 per team, 1.0 in total, to the win-equivalents of its category.     *)
C4_TiedEntryFullCredit ==
  [][AggregatingStep =>
       LET tied(c) == EntriesOf(cur', c, LAMBDA e : e.isTied)
           rest(c) == EntriesOf(cur', c, LAMBDA e : ~e.isTied)
       IN \A c \in Cats :
            rest(c) = 0 =>
              /\ \A t \in KeysOf(cur') :
                   OutcomeOf(outcomesByTeam', t, c).ties
                     = OutcomeOf(outcomesByTeam, t, c).ties + tied(c)
              /\ Get(winEquivalentsByCategory', c, 0)
                   = Get(winEquivalentsByCategory, c, 0) + 2 * tied(c)
  ]_vars

C4_Witness ==
  /\ SeasonRequest /\ nFolded = 1 /\ Aggregated(cur)
  /\ EntriesOf(cur, "9", LAMBDA e : e.isTied) = 1
  /\ EntriesOf(cur, "9", LAMBDA e : ~e.isTied) = 0
  /\ \A t \in KeysOf(cur) : OutcomeOf(outcomesByTeam, t, "9").ties = 1
  /\ Get(winEquivalentsByCategory, "9", 0) = 2

(* C5: a matchup with fewer than two team keys, without stat_winners or    *)
(* with a decided total of 0 leaves the six accumulators unchanged,        *)
(* whatever was folded before it.                                          *)
C5_SkippedMatchupFrame ==
  [][(SeasonRequest /\ nFolded' = nFolded + 1 /\
        LET keys == extractTwoTeamKeysFromMatchup(cur')
        IN \/ Len(keys) < 2
           \/ winsFromStatWinners(cur', keys[1], keys[2]).isNull
           \/ winsFromStatWinners(cur', keys[1], keys[2]).total = 0)
       => /\ totalsByTeam' = totalsByTeam
          /\ outcomesByTeam' = outcomesByTeam
          /\ marginsByTeam' = marginsByTeam
          /\ totalsByCategory' = totalsByCategory
          /\ winEquivalentsByCategory' = winEquivalentsByCategory
          /\ gamesByCategory' = gamesByCategory
  ]_vars

C5_Witness ==
  /\ SeasonRequest /\ nFolded = 2 /\ totalsByTeam # EmptyMap
  /\ LET keys == extractTwoTeamKeysFromMatchup(cur)
     IN /\ Len(keys) = 2
        /\ cur.stat_winners.list # <<>>
        /\ winsFromStatWinners(cur, keys[1], keys[2]).total = 0

-----------------------------------------------------------------------------
(* fetchScoreboardWeeks: one step per iteration of the loop over the weeks; *)
(* the response of a week is an input.                                      *)
(*   status   the HTTP status                                               *)
(*   json     "null" when the body does not parse, else "parsed"            *)
(*   matchups the length of findMatchupsDeep(json)                          *)
Responses ==
  { [status |-> st, json |-> "null", matchups |-> 0] : st \in {200, 404, 500} }
  \cup { [status |-> st, json |-> "parsed", matchups |-> n] : st \in {200, 404, 500}, n \in {0, 1} }

(* r.ok of node-fetch *)
Ok(r) == r.status >= 200 /\ r.status <= 299

ReqIdle ==
  /\ endpoint = "season-analytics" /\ pc = "done" /\ status = 0
  /\ settingsOk = TRUE /\ standingsOk = TRUE /\ catalog = <<>>
  /\ cur = NoMatchup /\ nFolded = 0 /\ anyUsable = FALSE
  /\ categoryIds = <<>>
  /\ totalsByTeam = EmptyMap /\ outcomesByTeam = EmptyMap /\ marginsByTeam = EmptyMap
  /\ totalsByCategory = EmptyMap /\ winEquivalentsByCategory = EmptyMap
  /\ gamesByCategory = EmptyMap
  /\ teamDir = EmptyMap /\ rows = <<>>
  /\ csTotalsByTeam = EmptyMap /\ csOutcomesByTeam = EmptyMap

(* the callers pass from >= 1 and to >= from *)
InitFetch ==
  /\ from \in 1 .. 2 /\ to \in from .. MaxWeek
  /\ w = from /\ weeks = <<>> /\ sawAny = FALSE /\ fpc = "loop"
  /\ fetched = <<>> /\ resp = <<>>
  /\ ReqIdle /\ CacheIdle /\ WalkIdle /\ RaceIdle

(* await yahooGetJSON(url, at) of week w *)
Fetch(r) ==
  /\ fpc = "loop" /\ w <= to
  /\ fetched' = Append(fetched, w) /\ resp' = Append(resp, r)
  /\ UNCHANGED <<from, to, reqVars, accVars, epVars, cacheVars, walkVars, raceVars>>

(* w++ and the loop test *)
Continue ==
  /\ w' = w + 1
  /\ fpc' = IF w + 1 <= to THEN "loop" ELSE "done"

(* break *)
Break == w' = w /\ fpc' = "done"

(* Week404 that skips the week instead of ending the probe *)
Week404Skips(r) ==
  /\ r.status = 404
  /\ Fetch(r)
  /\ Continue
  /\ UNCHANGED <<weeks, sawAny>>

(* if (status === 404) break; *)
Week404(r) ==
  /\ r.status = 404
  /\ Fetch(r)
  /\ Break
  /\ UNCHANGED <<weeks, sawAny>>

(* WeekFailed that ends the probe *)
WeekFailedBreaks(r) ==
  /\ r.status # 404 /\ (~Ok(r) \/ r.json = "null")
  /\ Fetch(r)
  /\ Break
  /\ UNCHANGED <<weeks, sawAny>>

(* if (!ok || !json) continue; *)
WeekFailed(r) ==
  /\ r.status # 404 /\ (~Ok(r) \/ r.json = "null")
  /\ Fetch(r)
  /\ Continue
  /\ UNCHANGED <<weeks, sawAny>>

(* if (matchups.length) { weeks.push(...); sawAny = true; } *)
WeekPopulated(r) ==
  /\ r.status # 404 /\ Ok(r) /\ r.json # "null" /\ r.matchups > 0
  /\ Fetch(r)
  /\ weeks' = Append(weeks, [week |-> w, matchups |-> r.matchups])
  /\ sawAny' = TRUE
  /\ Continue

(* WeekEmpty that keeps the week without matchups in the list *)
WeekEmptyKept(r) ==
  /\ r.status # 404 /\ Ok(r) /\ r.json # "null" /\ r.matchups = 0
  /\ Fetch(r)
  /\ weeks' = Append(weeks, [week |-> w, matchups |-> r.matchups])
  /\ sawAny' = sawAny
  /\ IF sawAny THEN Break ELSE Continue

(* else if (sawAny) break; *)
WeekEmpty(r) ==
  /\ r.status # 404 /\ Ok(r) /\ r.json # "null" /\ r.matchups = 0
  /\ Fetch(r)
  /\ IF sawAny THEN Break ELSE Continue
  /\ UNCHANGED <<weeks, sawAny>>

NextFetch ==
  \/ \E r \in Responses : Week404(r)
  \/ \E r \in Responses : WeekFailed(r)
  \/ \E r \in Responses : WeekPopulated(r)
  \/ \E r \in Responses : WeekEmpty(r)

SpecFetch == InitFetch /\ [][NextFetch]_vars

(* every awaited scoreboard fetch returns *)
SpecFetchLive == SpecFetch /\ WF_vars(NextFetch)

-----------------------------------------------------------------------------
(* Properties of the week probe *)

(* the responses by kind, read off the response alone *)
IsNotFound(r) == r.status = 404
IsFailure(r) == r.status # 404 /\ (r.status < 200 \/ r.status > 299 \/ r.json = "null")
HasMatchups(r) == r.status >= 200 /\ r.status <= 299 /\ r.json = "parsed" /\ r.matchups > 0
IsEmptyWeek(r) == r.status >= 200 /\ r.status <= 299 /\ r.json = "parsed" /\ r.matchups = 0

(* the week numbers of the returned list *)
WeekNumbers == [i \in 1 .. Len(weeks) |-> weeks[i].week]

(* the weeks among the first n fetched that answered with matchups *)
RECURSIVE PopulatedAmong(_)
PopulatedAmong(n) ==
  IF n = 0 THEN <<>>
  ELSE IF HasMatchups(resp[n]) THEN Append(PopulatedAmong(n - 1), fetched[n])
  ELSE PopulatedAmong(n - 1)

(* C6: a 404 on week N ends the probe at N: it is the last fetch, and the  *)
(* returned list is exactly the populated weeks fetched before N (empty    *)
(* when there was none).                                                   *)
C6_NotFoundStopsProbe ==
  \A i \in 1 .. Len(fetched) :
    IsNotFound(resp[i]) =>
      /\ i = Len(fetched)
      /\ fpc = "done"
      /\ \A j \in 1 .. Len(fetched) : fetched[j] <= fetched[i]
      /\ WeekNumbers = PopulatedAmong(i - 1)

C6_Witness ==
  /\ Len(fetched) = 3 /\ IsNotFound(resp[3])
  /\ HasMatchups(resp[1]) /\ HasMatchups(resp[2])
  /\ fetched[3] < to
  /\ Len(weeks) = 2

(* C7: after a populated week the probe ends early on empty weeks only     *)
(* once two consecutive empty weeks were probed: a probe that ended before *)
(* `to` without a 404 has two empty weeks as its last two fetches.         *)
C7_EndsAfterTwoEmptyWeeks ==
  (fpc = "done" /\ fetched # <<>> /\ fetched[Len(fetched)] < to
     /\ ~IsNotFound(resp[Len(resp)]))
    => /\ Len(resp) >= 2
       /\ IsEmptyWeek(resp[Len(resp)])
       /\ IsEmptyWeek(resp[Len(resp) - 1])

(* C8: a week that fails with a non-404 error status or an unparsable body *)
(* is skipped: the collected weeks are kept, the probe goes on to the next *)
(* week, and the returned list holds every populated week fetched, before  *)
(* and after the failure; a probe never ends before `to` on a failure.     *)
C8_FailedWeekSkipped ==
  [][ /\ (Len(resp') = Len(resp) + 1 /\ IsFailure(resp'[Len(resp')]))
         => /\ weeks' = weeks
            /\ sawAny' = sawAny
            /\ w' = w + 1
            /\ (w < to => fpc' = "loop")
      /\ WeekNumbers' = PopulatedAmong(Len(fetched))'
      /\ (fpc' = "done" /\ fetched'[Len(fetched')] < to)
           => ~IsFailure(resp'[Len(resp')])
  ]_vars

C8_Witness ==
  /\ Len(fetched) = 4 /\ fpc = "done"
  /\ HasMatchups(resp[1])
  /\ IsFailure(resp[2]) /\ resp[2].status = 500
  /\ IsFailure(resp[3]) /\ resp[3].status = 200
  /\ HasMatchups(resp[4])
  /\ WeekNumbers = <<fetched[1], fetched[4]>>

-----------------------------------------------------------------------------
(* The TTL caches: statCategoriesCache, seasonStatsCache, matrixCache.     *)
(* Time is counted in minutes. A call runs at one instant; time passes     *)
(* between calls. A cached value records the inputs it was computed from   *)
(* and the instant of the computation. calls counts the calls made.        *)

CategoriesTtl == 30
SeasonStatsTtl == 5
MatrixTtl == 1

(* the query of a request: year, min and max *)
Queries ==
  { [year |-> 2024, from |-> 1, to |-> 1],
    [year |-> 2024, from |-> 1, to |-> 2] }

leagueKeyForYear(year) == IF year = 2024 THEN "453.l.1520" ELSE "410.l.1520"

(* `${leagueKey}:${from}:${to}` *)
SeasonCacheKey(leagueKey, f, t) == <<leagueKey, f, t>>

(* `${year}:${from}:${to}` *)
MatrixCacheKey(year, f, t) == <<year, f, t>>

(* Live that still serves an entry at the instant of its expiry *)
LiveAtExpiry(entry, t) == entry.until >= t

(* cached.until > Date.now() *)
Live(entry, t) == entry.until > t

(* cached && cached.until > Date.now() *)
Hit(map, key) == Has(map, key) /\ Live(map[key], now)

(* getStatCategories that caches the failure of the settings fetch *)
getStatCategoriesCachingFailure(map, leagueKey, ok) ==
  IF Hit(map, leagueKey)
  THEN [map |-> map, kind |-> "hit", value |-> map[leagueKey].value,
        until |-> map[leagueKey].until]
  ELSE LET v == IF ok THEN [for |-> <<leagueKey>>, at |-> now] ELSE NoValue
       IN [map |-> Put(map, leagueKey, [value |-> v, until |-> now + CategoriesTtl]),
           kind |-> IF ok THEN "computed" ELSE "error", value |-> v,
           until |-> IF ok THEN now + CategoriesTtl ELSE 0]

(* getStatCategories(leagueKey): the cache it leaves and what it returns;  *)
(* ok is whether the settings fetch returns parsable JSON                  *)
getStatCategories(map, leagueKey, ok) ==
  IF Hit(map, leagueKey)
  THEN [map |-> map, kind |-> "hit", value |-> map[leagueKey].value,
        until |-> map[leagueKey].until]
  ELSE IF ok
  THEN LET v == [for |-> <<leagueKey>>, at |-> now]
       IN [map |-> Put(map, leagueKey, [value |-> v, until |-> now + CategoriesTtl]),
           kind |-> "computed", value |-> v, until |-> now + CategoriesTtl]
  ELSE [map |-> map, kind |-> "error", value |-> NoValue, until |-> 0]

Call(op, inputs, r) ==
  /\ calls < MaxCalls
  /\ calls' = calls + 1
  /\ ret' = [op |-> op, inputs |-> inputs, kind |-> r.kind, value |-> r.value,
             at |-> now, until |-> r.until]
  /\ UNCHANGED <<now, reqVars, accVars, epVars, fetchVars, walkVars, raceVars>>

Count(counter, c, k) == [counter EXCEPT ![c] = @ + k]

(* a direct call of getStatCategories, as GET /api/category-stats makes *)
GetStatCategoriesCall(q, ok) ==
  LET leagueKey == leagueKeyForYear(q.year)
      r == getStatCategories(cache["statCategories"], leagueKey, ok)
  IN /\ Call("statCategories", <<leagueKey>>, r)
     /\ cache' = [cache EXCEPT !["statCategories"] = r.map]
     /\ accesses' = Count(accesses, "statCategories", 1)
     /\ computes' = Count(computes, "statCategories", IF r.kind = "hit" THEN 0 ELSE 1)

(* collectSeasonStats(leagueKey, {from, to}); anyWeek is whether            *)
(* fetchScoreboardWeeks returns a week                                      *)
CollectSeasonStatsCall(q, anyWeek, ok) ==
  LET leagueKey == leagueKeyForYear(q.year)
      cacheKey == SeasonCacheKey(leagueKey, q.from, q.to)
      map == cache["seasonStats"]
      cats == getStatCategories(cache["statCategories"], leagueKey, ok)
      payload == [for |-> <<leagueKey, q.from, q.to>>, at |-> now]
  IN IF Hit(map, cacheKey)
     THEN /\ Call("seasonStats", <<leagueKey, q.from, q.to>>,
                  [kind |-> "hit", value |-> map[cacheKey].value, until |-> map[cacheKey].until])
          /\ accesses' = Count(accesses, "seasonStats", 1)
          /\ UNCHANGED <<cache, computes>>
     ELSE IF ~anyWeek
     THEN /\ Call("seasonStats", <<leagueKey, q.from, q.to>>,
                  [kind |-> "error", value |-> NoValue, until |-> 0])
          /\ accesses' = Count(accesses, "seasonStats", 1)
          /\ computes' = Count(computes, "seasonStats", 1)
          /\ UNCHANGED cache
     ELSE /\ Call("seasonStats", <<leagueKey, q.from, q.to>>,
                  IF cats.kind = "error"
                  THEN [kind |-> "error", value |-> NoValue, until |-> 0]
                  ELSE [kind |-> "computed", value |-> payload, until |-> now + SeasonStatsTtl])
          /\ cache' = [cache EXCEPT
                         !["statCategories"] = cats.map,
                         !["seasonStats"] =
                            IF cats.kind = "error" THEN @
                            ELSE Put(@, cacheKey, [value |-> payload,
                                                   until |-> now + SeasonStatsTtl])]
          /\ accesses' = Count(Count(accesses, "seasonStats", 1), "statCategories", 1)
          /\ computes' = Count(Count(computes, "seasonStats", 1), "statCategories",
                               IF cats.kind = "hit" THEN 0 ELSE 1)

(* GET /api/weekly-matrix; anyRow is whether a decided matchup was found *)
WeeklyMatrixCall(q, anyRow) ==
  LET cacheKey == MatrixCacheKey(q.year, q.from, q.to)
      map == cache["matrix"]
      payload == [for |-> <<q.year, q.from, q.to>>, at |-> now]
  IN IF Hit(map, cacheKey)
     THEN /\ Call("matrix", <<q.year, q.from, q.to>>,
                  [kind |-> "hit", value |-> map[cacheKey].value, until |-> map[cacheKey].until])
          /\ accesses' = Count(accesses, "matrix", 1)
          /\ UNCHANGED <<cache, computes>>
     ELSE /\ Call("matrix", <<q.year, q.from, q.to>>,
                  IF anyRow
                  THEN [kind |-> "computed", value |-> payload, until |-> now + MatrixTtl]
                  ELSE [kind |-> "error", value |-> NoValue, until |-> 0])
          /\ cache' = [cache EXCEPT !["matrix"] =
                         IF anyRow
                         THEN Put(@, cacheKey, [value |-> payload, until |-> now + MatrixTtl])
                         ELSE @]
          /\ accesses' = Count(accesses, "matrix", 1)
          /\ computes' = Count(computes, "matrix", 1)

(* the instants the clock is sampled at: those within MaxSlack minutes of  *)
(* the expiry of an entry stored at 0                                      *)
Instants ==
  {t \in 0 .. (CategoriesTtl + MaxSlack) :
     \E e \in {0, MatrixTtl, SeasonStatsTtl, CategoriesTtl} :
       t >= e - MaxSlack /\ t <= e + MaxSlack}

(* time passes between two calls *)
Tick ==
  /\ \E t \in Instants : t > now
  /\ now' = CHOOSE t \in Instants : t > now /\ \A u \in Instants : u > now => t <= u
  /\ UNCHANGED <<cache, calls, ret, computes, accesses>>
  /\ UNCHANGED <<reqVars, accVars, epVars, fetchVars, walkVars, raceVars>>

FetchDone ==
  /\ from = 1 /\ to = 1 /\ w = 1 /\ weeks = <<>> /\ sawAny = FALSE
  /\ fpc = "done" /\ fetched = <<>> /\ resp = <<>>

InitCache == ReqIdle /\ FetchDone /\ CacheIdle /\ WalkIdle /\ RaceIdle

NextCache ==
  \/ \E q \in Queries, ok \in BOOLEAN : GetStatCategoriesCall(q, ok)
  \/ \E q \in Queries, anyWeek \in BOOLEAN, ok \in BOOLEAN : CollectSeasonStatsCall(q, anyWeek, ok)
  \/ \E q \in Queries, anyRow \in BOOLEAN : WeeklyMatrixCall(q, anyRow)
  \/ Tick

SpecCache == InitCache /\ [][NextCache]_vars

-----------------------------------------------------------------------------
(* Properties of the TTL caches *)

Ttl(c) ==
  CASE c = "statCategories" -> CategoriesTtl
    [] c = "seasonStats" -> SeasonStatsTtl
    [] c = "matrix" -> MatrixTtl

(* the key an operation's inputs are stored under *)
KeyFor(c, inputs) == IF c = "statCategories" THEN inputs[1] ELSE inputs

(* C9: a lookup returns the stored value only strictly before its expiry   *)
(* and only for the identical key; at or after expiry (or without an       *)
(* entry) the call recomputes and never returns the stored value, and a    *)
(* recomputation that completes replaces the entry with the fresh value    *)
(* and a fresh expiry; an entry changes only in a call that looks its      *)
(* cache up, never by the passing of time.                                 *)
C9_TtlCacheLookup ==
  [][ /\ (calls' = calls + 1) =>
           LET c == ret'.op
               key == KeyFor(c, ret'.inputs)
               stale == ~Has(cache[c], key) \/ cache[c][key].until <= now
               fresh == [for |-> ret'.inputs, at |-> now]
           IN IF stale
              THEN /\ ret'.kind # "hit"
                   /\ computes'[c] = computes[c] + 1
                   /\ ret'.kind = "computed" =>
                        /\ ret'.value = fresh
                        /\ Has(cache'[c], key)
                        /\ cache'[c][key] = [value |-> fresh, until |-> now + Ttl(c)]
              ELSE /\ ret'.kind = "hit"
                   /\ ret'.value = cache[c][key].value
                   /\ ret'.value.for = ret'.inputs
                   /\ ret'.at < ret'.until
                   /\ computes'[c] = computes[c]
                   /\ cache'[c] = cache[c]
      /\ \A c \in CacheNames : cache'[c] # cache[c] => accesses'[c] = accesses[c] + 1
      /\ now' # now => cache' = cache
  ]_vars

C9_Witness ==
  /\ ret.op = "seasonStats" /\ ret.kind = "computed" /\ ret.at = SeasonStatsTtl
  /\ computes["seasonStats"] = 2
  /\ accesses["statCategories"] = 2 /\ computes["statCategories"] = 1

-----------------------------------------------------------------------------
(* The not-found outcome of the three endpoints *)

(* C10 as claimed: a request whose weeks held no usable matchup (and whose *)
(* upstream settings and standings calls succeeded) ends in 404, for each  *)
(* of weekly-matrix, category-stats and season-analytics.                  *)
C10_NoUsableMatchupNotFound ==
  (pc = "done" /\ ~anyUsable /\ settingsOk /\ standingsOk) => status = 404

-----------------------------------------------------------------------------
(* The required fetches of a request: teams, settings, standings.          *)
(* A request is followed from one await to the next; the weeks that are    *)
(* fetched in between each hold a decided matchup.                         *)

RequiredResponses == [status : {200, 404, 500}, json : {"null", "parsed"}]

(* the directory getTeamDirectory builds: a body that is not JSON gives an *)
(* empty Map (line 334), r.ok is never read, and the error document of a   *)
(* non-2xx answer names no team                                            *)
getTeamDirectory(r) ==
  IF r.json = "parsed" /\ Ok(r) THEN [k \in {"t1"} |-> "Alpha"] ELSE EmptyMap

(* the categories of a settings body that parsed; the error document of a  *)
(* non-2xx answer holds no stat_categories                                 *)
CategoriesOfSettings(r) ==
  IF Ok(r) THEN <<StatCategory("9", Num(1), "SV")>> ELSE <<>>

InitRequired ==
  /\ endpoint \in Endpoints /\ pc = "teams" /\ status = 0
  /\ settingsOk = TRUE /\ standingsOk = TRUE /\ catalog = <<>>
  /\ cur = NoMatchup /\ nFolded = 0 /\ anyUsable = FALSE
  /\ categoryIds = <<>>
  /\ totalsByTeam = EmptyMap /\ outcomesByTeam = EmptyMap /\ marginsByTeam = EmptyMap
  /\ totalsByCategory = EmptyMap /\ winEquivalentsByCategory = EmptyMap
  /\ gamesByCategory = EmptyMap
  /\ teamDir = EmptyMap /\ rows = <<>>
  /\ csTotalsByTeam = EmptyMap /\ csOutcomesByTeam = EmptyMap
  /\ FetchIdle /\ CacheIdle /\ WalkIdle /\ RaceIdle

RequiredFrame ==
  UNCHANGED <<endpoint, cur, nFolded, anyUsable, accVars, rows, csTotalsByTeam,
              csOutcomesByTeam, from, to, w, sawAny, fpc, fetched, cacheVars, walkVars, raceVars>>

(* const teamDir = await getTeamDirectory(leagueKey), lines 594, 769, 817 *)
FetchTeams(r) ==
  /\ pc = "teams"
  /\ resp' = Append(resp, [what |-> "teams", status |-> r.status, json |-> r.json])
  /\ teamDir' = getTeamDirectory(r)
  /\ pc' = "weeks"
  /\ UNCHANGED <<status, settingsOk, standingsOk, catalog, weeks>>
  /\ RequiredFrame

(* await fetchScoreboardWeeks and what each handler does with its result:  *)
(* lines 595-596, 770-804, 818-820                                         *)
FetchWeeks(ws) ==
  /\ pc = "weeks"
  /\ weeks' = ws
  /\ IF ws = <<>>
       THEN pc' = "done" /\ status' = 404
       ELSE IF endpoint = "weekly-matrix"
              THEN pc' = "done" /\ status' = 200
              ELSE pc' = "settings" /\ status' = status
  /\ UNCHANGED <<settingsOk, standingsOk, catalog, teamDir, resp>>
  /\ RequiredFrame

(* const categories = await getStatCategories(leagueKey), lines 598, 822;  *)
(* `if (!json) throw` at line 441 ends the request in the handler's catch  *)
FetchSettings(r) ==
  /\ pc = "settings"
  /\ resp' = Append(resp, [what |-> "settings", status |-> r.status, json |-> r.json])
  /\ settingsOk' = (r.json = "parsed")
  /\ IF r.json = "null"
       THEN pc' = "done" /\ status' = 500 /\ catalog' = catalog
       ELSE /\ catalog' = CategoriesOfSettings(r)
            /\ IF endpoint = "category-stats"
                 THEN pc' = "done" /\ status' = 200
                 ELSE pc' = "standings" /\ status' = status
  /\ UNCHANGED <<standingsOk, teamDir, weeks>>
  /\ RequiredFrame

(* const standings = await getTeamStandingsSummary(leagueKey), line 971;   *)
(* `if (!json) throw` at line 527                                          *)
FetchStandings(r) ==
  /\ pc = "standings"
  /\ resp' = Append(resp, [what |-> "standings", status |-> r.status, json |-> r.json])
  /\ standingsOk' = (r.json = "parsed")
  /\ pc' = "done"
  /\ status' = IF r.json = "null" THEN 500 ELSE 200
  /\ UNCHANGED <<settingsOk, catalog, teamDir, weeks>>
  /\ RequiredFrame

NextRequired ==
  \/ \E r \in RequiredResponses : FetchTeams(r)
  \/ \E ws \in {<<>>, <<1>>} : FetchWeeks(ws)
  \/ \E r \in RequiredResponses : FetchSettings(r)
  \/ \E r \in RequiredResponses : FetchStandings(r)

SpecRequired == InitRequired /\ [][NextRequired]_vars

RequiredFailed(r) == ~Ok(r) \/ r.json = "null"

(* C11 as claimed: a request one of whose required fetches (teams,         *)
(* settings, standings) answered non-2xx or with a body that is not JSON   *)
(* does not end in a success response.                                     *)
C11_RequiredFetchFailureFails ==
  (pc = "done" /\ \E i \in 1 .. Len(resp) : RequiredFailed(resp[i])) => status # 200

-----------------------------------------------------------------------------
(* Parsed payloads as object graphs.                                       *)
(* An array or object is a node of heap, named by its identity; a value is *)
(* a JSON scalar or a reference to a node. The kids of a node are its      *)
(* elements in index order, or its property values in key order.           *)

NodeIds == {1, 2}
KidCounts == 0 .. 2

Ref(n) == [tag |-> "ref", n |-> n, s |-> ""]
IsRef(x) == x.tag = "ref"

Values == {Ref(n) : n \in NodeIds} \cup {Null, Str(""), Str("x")}

KidLists == UNION { [1 .. len -> Values] : len \in KidCounts }

(* Object.keys of an object with n properties *)
ObjectKeys(n) == SubSeq(<<"a", "value">>, 1, n)

Nodes == [kind : {"array", "object"}, kids : KidLists]
Heaps == [NodeIds -> Nodes]

(* the call stack a recursion may use before the engine throws RangeError *)
StackLimit == 2 * Cardinality(NodeIds) + 2

(* the result of the predicate handed to deepFindFirst on node n *)
Picker(hits, n) == IF n \in hits THEN Str(IF n = 1 THEN "p1" ELSE "p2") ELSE Null

(* seen of a walk that never remembers a node *)
SeenHasNever(seen, n) == FALSE

(* seen.has(x), line 162 *)
SeenHas(seen, n) == n \in seen

(* deepFindFirst: walk(x), lines 160-178. st carries the seen set, the     *)
(* nodes the predicate was evaluated on, and whether the stack overflowed  *)
RECURSIVE walk(_, _, _, _, _), walkKids(_, _, _, _, _, _)
walk(h, hits, x, st, depth) ==
  IF ~IsRef(x) THEN [r |-> Null, st |-> st]
  ELSE IF depth > StackLimit THEN [r |-> Null, st |-> [st EXCEPT !.overflow = TRUE]]
  ELSE IF SeenHas(st.seen, x.n) THEN [r |-> Null, st |-> st]
  ELSE LET st1 == [st EXCEPT !.seen = @ \cup {x.n}, !.trace = Append(@, x.n)]
           got == Picker(hits, x.n)
       IN IF got # Null THEN [r |-> got, st |-> st1]
          ELSE walkKids(h, hits, h[x.n].kids, 1, st1, depth + 1)

walkKids(h, hits, kids, i, st, depth) ==
  IF i > Len(kids) THEN [r |-> Null, st |-> st]
  ELSE LET res == walk(h, hits, kids[i], st, depth)
       IN IF res.r # Null \/ res.st.overflow THEN res
          ELSE walkKids(h, hits, kids, i + 1, res.st, depth)

deepFindFirst(h, node, hits) ==
  walk(h, hits, node, [seen |-> {}, trace |-> <<>>, overflow |-> FALSE], 1)

(* yahooScalar on a value of the graph, lines 182-204: the string it       *)
(* returns or Null, and whether the recursion overflowed the stack         *)
RECURSIVE yahooScalarOn(_, _, _), scanItems(_, _, _, _)
yahooScalarOn(h, value, depth) ==
  IF ~IsRef(value) THEN [v |-> yahooScalar(value), overflow |-> FALSE]
  ELSE IF depth > StackLimit THEN [v |-> Null, overflow |-> TRUE]
  ELSE LET node == h[value.n]
           keys == ObjectKeys(Len(node.kids))
           direct == {i \in 1 .. Len(keys) :
                        keys[i] \in {"$", "full", "value"} /\ node.kids[i].tag = "str"}
       IN IF node.kind = "object" /\ direct # {}
            THEN [v |-> node.kids[CHOOSE i \in direct : TRUE], overflow |-> FALSE]
            ELSE scanItems(h, node.kids, 1, depth + 1)

scanItems(h, kids, i, depth) ==
  IF i > Len(kids) THEN [v |-> Null, overflow |-> FALSE]
  ELSE LET got == yahooScalarOn(h, kids[i], depth)
       IN IF got.overflow \/ (got.v # Null /\ got.v # Str("")) THEN got
          ELSE scanItems(h, kids, i + 1, depth)

InitWalk ==
  /\ heap \in Heaps /\ arg = Ref(1)
  /\ picks = {} /\ fn = "none" /\ out = NoOut /\ trace = <<>>
  /\ ReqIdle /\ FetchIdle /\ CacheIdle /\ RaceIdle

WalkFrame == UNCHANGED <<heap, arg, reqVars, accVars, epVars, fetchVars, cacheVars, raceVars>>

DeepFindFirstCall(hits) ==
  /\ fn = "none"
  /\ LET res == deepFindFirst(heap, arg, hits)
     IN /\ out' = [v |-> res.r, overflow |-> res.st.overflow]
        /\ trace' = res.st.trace
  /\ picks' = hits /\ fn' = "deepFindFirst"
  /\ WalkFrame

YahooScalarCall ==
  /\ fn = "none"
  /\ out' = yahooScalarOn(heap, arg, 1)
  /\ fn' = "yahooScalar"
  /\ UNCHANGED <<picks, trace>>
  /\ WalkFrame

NextWalk ==
  \/ \E hits \in SUBSET NodeIds : DeepFindFirstCall(hits)
  \/ YahooScalarCall

SpecWalk == InitWalk /\ [][NextWalk]_vars

-----------------------------------------------------------------------------
(* Properties of the graph walks *)

(* the nodes the predicate was evaluated on before and at position i *)
Prefix(i) == {trace[j] : j \in 1 .. i}

(* the kids of node n that are nodes not in S, by position *)
UnseenKids(n, S) ==
  {k \in 1 .. Len(heap[n].kids) : IsRef(heap[n].kids[k]) /\ heap[n].kids[k].n \notin S}

FirstUnseenKid(n, S) ==
  heap[n].kids[CHOOSE k \in UnseenKids(n, S) : \A l \in UnseenKids(n, S) : k <= l].n

(* positions up to i whose node still has a kid the walk has not met *)
Pending(i) == {j \in 1 .. i : UnseenKids(trace[j], Prefix(i)) # {}}

Latest(J) == CHOOSE j \in J : \A l \in J : l <= j

C13_YahooScalarCycleGuard ==
  (fn = "yahooScalar"
     /\ \A n \in NodeIds : \A k \in 1 .. Len(heap[n].kids) : heap[n].kids[k].tag # "str")
  => (~out.overflow /\ out.v = Null)

-----------------------------------------------------------------------------
(* The pure helpers, each applied once to an argument drawn from its       *)
(* input set.                                                              *)

(* Boolean(v) of a JSON scalar *)
ToBoolean(v) ==
  CASE v.tag = "null" -> FALSE
    [] v.tag = "num" -> v.n # 0
    [] v.tag = "bool" -> v.n = 1
    [] v.tag = "str" -> v.s # ""

Scalars == {Null, Num(0), Num(7), Str(""), Str("x"), Bool(FALSE)}

(* the argument of normalizeYahooList: a scalar, an array of scalars, or   *)
(* an object whose keys enumerate as "0", "count", "1"                     *)
ListKeys == <<"0", "count", "1">>
ListArguments ==
  { [kind |-> "scalar", scalar |-> v, keys |-> <<>>, items |-> <<>>] : v \in Scalars }
  \cup { [kind |-> "array", scalar |-> Null, keys |-> <<>>, items |-> it] :
           it \in UNION { [1 .. len -> Scalars] : len \in 0 .. 2 } }
  \cup { [kind |-> "object", scalar |-> Null, keys |-> ListKeys, items |-> it] :
           it \in [1 .. 3 -> Scalars] }

(* the values of the keys other than "count", in key order; with          *)
(* dropFalsy, without those Boolean() rejects                              *)
RECURSIVE ValuesExceptCount(_, _, _)
ValuesExceptCount(keys, items, dropFalsy) ==
  IF items = <<>> THEN <<>>
  ELSE (IF Head(keys) # "count" /\ (dropFalsy => ToBoolean(Head(items)))
          THEN <<Head(items)>> ELSE <<>>)
       \o ValuesExceptCount(Tail(keys), Tail(items), dropFalsy)

(* normalizeYahooList, lines 250-260 *)
normalizeYahooList(value) ==
  IF value.kind = "scalar" /\ ~ToBoolean(value.scalar) THEN <<>>
  ELSE IF value.kind = "array" THEN value.items
  ELSE IF value.kind = "object" THEN ValuesExceptCount(value.keys, value.items, TRUE)
  ELSE <<value.scalar>>

(* the subtree extractTwoTeamKeysFromMatchup walks: arrays and objects as  *)
(* lists of their values in enumeration order, strings and null as leaves  *)
List(items) == [tag |-> "list", items |-> items]
Leaves == {Str("t1"), Str("t2"), Str("see t3"), Str("name"), Null}
ItemCounts == 0 .. 2
Inner == { List(it) : it \in UNION { [1 .. len -> Leaves] : len \in ItemCounts } }
Trees == { List(it) : it \in UNION { [1 .. len -> Leaves \cup Inner] : len \in ItemCounts } }

(* x.match(reKey): the first team key inside a string, "" for no match *)
MatchTeamKey(str) ==
  CASE str \in Teams -> str
    [] str = "see t3" -> "t3"
    [] OTHER -> ""

(* walk(x), lines 381-386: the matches in encounter order *)
RECURSIVE keyStrings(_), keyStringsOfItems(_)
keyStrings(x) ==
  IF x.tag = "list" THEN keyStringsOfItems(x.items)
  ELSE IF x.tag = "str" /\ MatchTeamKey(x.s) # "" THEN <<MatchTeamKey(x.s)>>
  ELSE <<>>

keyStringsOfItems(items) ==
  IF items = <<>> THEN <<>> ELSE keyStrings(Head(items)) \o keyStringsOfItems(Tail(items))

(* a matchup node: its teams property (Null when absent) and the values of *)
(* its other properties; m?.teams || m, line 387                           *)
MatchupNodes ==
  [teams : Trees \cup {Null}, other : {List(<<>>), List(<<Str("t1"), Str("t3")>>)}]

WalkedSubtree(node) == IF node.teams = Null THEN node.other ELSE node.teams

(* the matchup of the fold that a matchup node stands for: every team has  *)
(* a team node with one stat, and the one stat-winner entry is a tie       *)
MatchupOfNode(node) ==
  [strs |-> keyStrings(WalkedSubtree(node)),
   teamNodes |-> <<[team_key |-> Str("t1"), name |-> Str("Ones"), stats |-> <<StatNode("5", Num(1))>>],
                   [team_key |-> Str("t2"), name |-> Str("Twos"), stats |-> <<StatNode("5", Num(2))>>],
                   [team_key |-> Str("t3"), name |-> Str("Threes"), stats |-> <<StatNode("5", Num(3))>>]>>,
   stat_winners |-> [absent |-> FALSE, list |-> <<StatWinner(Str("5"), Num(1), Null)>>]]

EmptyAcc ==
  [categoryIds |-> <<>>, totalsByTeam |-> EmptyMap, outcomesByTeam |-> EmptyMap,
   marginsByTeam |-> EmptyMap, totalsByCategory |-> EmptyMap,
   winEquivalentsByCategory |-> EmptyMap, gamesByCategory |-> EmptyMap]

(* a.sort_order ?? Number(a.id) ?? 0, lines 477 and 699: Number() of an id *)
(* that is not numeric is NaN, which is not nullish, so 0 is never taken   *)
OrderOf(c) ==
  IF c.sort_order # Null THEN [nan |-> FALSE, n |-> c.sort_order.n]
  ELSE IF IsNumeric(c.id) THEN [nan |-> FALSE, n |-> NumberOfString(c.id)]
  ELSE [nan |-> TRUE, n |-> 0]

(* the comparator aOrder - bOrder as Array.prototype.sort reads it: a NaN  *)
(* result counts as +0                                                     *)
CompareCategories(a, b) ==
  IF OrderOf(a).nan \/ OrderOf(b).nan THEN 0 ELSE OrderOf(a).n - OrderOf(b).n

(* Array.prototype.sort, stable: each element goes behind the last one it  *)
(* does not compare below                                                  *)
RECURSIVE InsertCategory(_, _)
InsertCategory(sorted, c) ==
  IF sorted = <<>> THEN <<c>>
  ELSE LET last == sorted[Len(sorted)]
       IN IF CompareCategories(c, last) < 0
            THEN Append(InsertCategory(SubSeq(sorted, 1, Len(sorted) - 1), c), last)
            ELSE Append(sorted, c)

RECURSIVE SortInto(_, _)
SortInto(sorted, rest) ==
  IF rest = <<>> THEN sorted ELSE SortInto(InsertCategory(sorted, Head(rest)), Tail(rest))

(* .sort((a, b) => aOrder - bOrder), lines 476-480 and 698-702 *)
SortCategories(categories) == SortInto(<<>>, categories)

CategoryPool ==
  { StatCategory(id, so, id) : id \in {"5", "9", "x"}, so \in {Null, Num(5)} }
CategoryLists == UNION { [1 .. len -> CategoryPool] : len \in 0 .. 3 }

(* JavaScript numbers are binary floating point: the result of every      *)
(* operation is rounded to the nearest number with Precision significant   *)
(* bits, ties to even. Numbers are counted in units of the smallest one    *)
(* (Unit units make 1); Precision is 53 in the language and 3 here, so    *)
(* that 3 + 3 + 3 is rounded here as 0.1 + 0.1 + 0.1 is in the language.   *)
Precision == 3
Unit == 16

Pow2(n) == IF n = 0 THEN 1 ELSE IF n = 1 THEN 2 ELSE IF n = 2 THEN 4 ELSE IF n = 3 THEN 8
           ELSE IF n = 4 THEN 16 ELSE IF n = 5 THEN 32 ELSE IF n = 6 THEN 64
           ELSE IF n = 7 THEN 128 ELSE 256

(* num / den rounded to Precision significant bits, den > 0 *)
RoundRatio(num, den) ==
  LET a == IF num < 0 THEN -num ELSE num
      shift == CHOOSE sh \in 0 .. 8 :
                 /\ a < den * Pow2(Precision) * Pow2(sh)
                 /\ \A t \in 0 .. sh - 1 : ~(a < den * Pow2(Precision) * Pow2(t))
      d == den * Pow2(shift)
      k == a \div d
      r == a % d
      up == 2 * r > d \/ (2 * r = d /\ k % 2 = 1)
      rounded == (IF up THEN k + 1 ELSE k) * Pow2(shift)
  IN IF num < 0 THEN -rounded ELSE rounded

(* values.reduce((acc, val) => acc + val, 0), line 728 *)
RECURSIVE ReduceSum(_, _)
ReduceSum(acc, values) ==
  IF values = <<>> THEN acc
  ELSE ReduceSum(RoundRatio(acc + Head(values), 1), Tail(values))

(* calculateMean, lines 726-730 *)
calculateMean(values) ==
  IF Len(values) = 0 THEN 0 ELSE RoundRatio(ReduceSum(0, values), Len(values))

(* calculateStdDev(values, mean) = 0, lines 732-736: a square root of a    *)
(* mean of squares is 0 only when every val - mean is 0                    *)
StdDevIsZero(values, mean) ==
  Len(values) < 2 \/ \A i \in 1 .. Len(values) : values[i] = mean

(* the sharpe entry of one team and category, lines 993-1007: absent for   *)
(* an empty series, else the mean and sharpe = stdDev ? mean / stdDev :    *)
(* null, of which the model keeps whether it is null and its sign          *)
SharpeOf(values) ==
  LET mean == calculateMean(values)
      isNull == StdDevIsZero(values, mean)
  IN [absent |-> Len(values) = 0, mean |-> mean, sharpeIsNull |-> isNull,
      sharpeSign |-> IF isNull THEN 0 ELSE IF mean > 0 THEN 1 ELSE IF mean < 0 THEN -1 ELSE 0]

MarginValues == {-3 * Unit, Unit, 3 * Unit, 6 * Unit}
MarginSeries == UNION { [1 .. len -> MarginValues] : len \in 0 .. 3 }

(* findMatchupsDeep, lines 138-157, on the values of a parsed week payload:  *)
(* objects (with an id when they are matchup nodes), arrays and numbers      *)
JObject(keys, vals) == [kind |-> "object", id |-> 0, keys |-> keys, vals |-> vals]
JArray(vals) == [kind |-> "array", id |-> 0, keys |-> <<>>, vals |-> vals]
JNumber(n) == [kind |-> "number", id |-> n, keys |-> <<>>, vals |-> <<>>]
JUndefined == [kind |-> "undefined", id |-> 0, keys |-> <<>>, vals |-> <<>>]
MatchupNode(id) == [kind |-> "object", id |-> id, keys |-> <<"week">>, vals |-> <<JNumber(id)>>]

(* x.key, undefined on anything but an object that has the key *)
Prop(x, key) ==
  IF x.kind = "object" /\ \E i \in 1 .. Len(x.keys) : x.keys[i] = key
  THEN x.vals[CHOOSE i \in 1 .. Len(x.keys) : x.keys[i] = key]
  ELSE JUndefined

JTruthy(x) == x.kind \in {"object", "array"} \/ (x.kind = "number" /\ x.id # 0)

(* const toArray = (x) => (!x ? [] : Array.isArray(x) ? x : [x]) *)
toArray(x) == IF ~JTruthy(x) THEN <<>> ELSE IF x.kind = "array" THEN x.vals ELSE <<x>>

(* for (const k of Object.keys(m)) if (k !== "count") { got = m[k]?.matchup *)
(* || m[k]; if (got) found.push(...toArray(got)) } on the array m, whose    *)
(* keys are its indices                                                     *)
RECURSIVE pushKeysOf(_)
pushKeysOf(vals) ==
  IF vals = <<>> THEN <<>>
  ELSE LET got == IF JTruthy(Prop(Head(vals), "matchup"))
                    THEN Prop(Head(vals), "matchup") ELSE Head(vals)
       IN toArray(got) \o pushKeysOf(Tail(vals))

(* for (const it of m) if (it?.matchup) found.push(...toArray(it.matchup)); *)
(* else if (typeof m === "object") for (const k of Object.keys(m)) ...:     *)
(* the else belongs to the if inside the loop                               *)
RECURSIVE pushItemsOf(_, _)
pushItemsOf(items, m) ==
  IF items = <<>> THEN <<>>
  ELSE (IF JTruthy(Prop(Head(items), "matchup"))
          THEN toArray(Prop(Head(items), "matchup"))
          ELSE pushKeysOf(m.vals))
       \o pushItemsOf(Tail(items), m)

(* if (node.matchups) { ... }: nothing is pushed unless m is an array *)
pushMatchups(node) ==
  LET m == Prop(node, "matchups")
  IN IF JTruthy(m) /\ m.kind = "array" THEN pushItemsOf(m.vals, m) ELSE <<>>

RECURSIVE visit(_), visitAll(_)
visit(node) ==
  IF ~JTruthy(node) THEN <<>>
  ELSE toArray(Prop(node, "matchup")) \o pushMatchups(node)
       \o (IF node.kind \in {"array", "object"} THEN visitAll(node.vals) ELSE <<>>)
visitAll(vals) ==
  IF vals = <<>> THEN <<>> ELSE visit(Head(vals)) \o visitAll(Tail(vals))

findMatchupsDeep(root) == visit(root)

(* the matchups containers of a week of n matchups: an array of {matchup}   *)
(* wrappers, an array of matchup nodes, and the objects keyed "0", "1", ... *)
(* and "count" of wrappers and of matchup nodes                             *)
MatchupCounts == 0 .. 2
IndexKeys(n) == SubSeq(<<"0", "1">>, 1, n)
Wrapped(n) == [i \in 1 .. n |-> JObject(<<"matchup">>, <<MatchupNode(i)>>)]
Bare(n) == [i \in 1 .. n |-> MatchupNode(i)]
Containers(n) ==
  { [shape |-> "array of wrappers", matchups |-> JArray(Wrapped(n))],
    [shape |-> "array of matchups", matchups |-> JArray(Bare(n))],
    [shape |-> "keyed wrappers",
     matchups |-> JObject(Append(IndexKeys(n), "count"), Append(Wrapped(n), JNumber(n)))],
    [shape |-> "keyed matchups",
     matchups |-> JObject(Append(IndexKeys(n), "count"), Append(Bare(n), JNumber(n)))] }

(* the week payload around a container *)
WeekPayload(c) ==
  JObject(<<"fantasy_content">>,
    <<JObject(<<"league">>,
        <<JArray(<<JObject(<<"league_key">>, <<JNumber(1)>>),
                   JObject(<<"scoreboard">>,
                     <<JObject(<<"week", "matchups">>, <<JNumber(1), c>>)>>)>>)>>)>>)

WeekPayloads ==
  UNION { { [shape |-> c.shape, count |-> n, json |-> WeekPayload(c.matchups)] :
            c \in Containers(n) } : n \in MatchupCounts }

PureArguments ==
  { [for |-> "normalizeYahooList", value |-> v] : v \in ListArguments }
  \cup { [for |-> "sharpe", value |-> [values |-> v]] : v \in MarginSeries }
  \cup { [for |-> "sortCategories", value |-> [categories |-> v]] : v \in CategoryLists }
  \cup { [for |-> "extractTwoTeamKeysFromMatchup", value |-> v] : v \in MatchupNodes }
  \cup { [for |-> "findMatchupsDeep", value |-> v] : v \in WeekPayloads }

InitPure ==
  /\ arg \in PureArguments
  /\ heap = <<>> /\ picks = {} /\ fn = "none" /\ out = NoOut /\ trace = <<>>
  /\ ReqIdle /\ FetchIdle /\ CacheIdle /\ RaceIdle

Apply(name, result) ==
  /\ fn = "none" /\ arg.for = name
  /\ fn' = name /\ out' = [v |-> result, overflow |-> FALSE]
  /\ UNCHANGED <<heap, arg, picks, trace, reqVars, accVars, epVars, fetchVars, cacheVars, raceVars>>

NormalizeYahooListCall == Apply("normalizeYahooList", normalizeYahooList(arg.value))

(* the keys of a matchup node and the accumulators after folding it *)
ExtractTwoTeamKeysCall ==
  Apply("extractTwoTeamKeysFromMatchup",
        [keys |-> extractTwoTeamKeysFromMatchup(MatchupOfNode(arg.value)),
         acc |-> CollectMatchup(EmptyAcc, MatchupOfNode(arg.value))])

SortCategoriesCall == Apply("sortCategories", SortCategories(arg.value.categories))

SharpeCall == Apply("sharpe", SharpeOf(arg.value.values))

(* const matchups = findMatchupsDeep(json), line 425 *)
FindMatchupsDeepCall ==
  Apply("findMatchupsDeep", [found |-> findMatchupsDeep(arg.value.json)])

NextPure ==
  \/ NormalizeYahooListCall
  \/ SharpeCall
  \/ SortCategoriesCall
  \/ ExtractTwoTeamKeysCall
  \/ FindMatchupsDeepCall

SpecPure == InitPure /\ [][NextPure]_vars

(* C14 as claimed: normalizeYahooList returns the array itself for an      *)
(* array; for an object the values of all keys but "count", in key order,  *)
(* none dropped; a one-element sequence for any other non-null value       *)
(* (0, "" and false included); the empty sequence for null.                *)
C14_NormalizeYahooList ==
  fn = "normalizeYahooList" =>
    LET value == arg.value
    IN out.v = CASE value.kind = "array" -> value.items
                 [] value.kind = "object" -> ValuesExceptCount(value.keys, value.items, FALSE)
                 [] value.kind = "scalar" /\ value.scalar # Null -> <<value.scalar>>
                 [] value.kind = "scalar" /\ value.scalar = Null -> <<>>

(* the leaves of a subtree in document order *)
RECURSIVE LeavesOf(_), LeavesOfItems(_)
LeavesOf(x) == IF x.tag = "list" THEN LeavesOfItems(x.items) ELSE <<x>>
LeavesOfItems(items) ==
  IF items = <<>> THEN <<>> ELSE LeavesOf(Head(items)) \o LeavesOfItems(Tail(items))

IsKeyLeaf(x) == x.tag = "str" /\ MatchTeamKey(x.s) # ""

ClaimedOrder(c) ==
  IF c.sort_order # Null THEN c.sort_order.n
  ELSE IF IsNumeric(c.id) THEN NumberOfString(c.id) ELSE 0

Rearrangements(n) == {f \in [1 .. n -> 1 .. n] : \A i, j \in 1 .. n : f[i] = f[j] => i = j}

-----------------------------------------------------------------------------
(* The category list of collectSeasonStats *)

(* a placeholder that sorts as order 0 *)
PlaceholderWithZeroOrder(id) ==
  [id |-> id, name |-> id, display_name |-> id, sort_order |-> Num(0)]

(* the object synthesized for an id the catalog lacks, lines 691-697 *)
PlaceholderCategory(id) ==
  [id |-> id, name |-> id, display_name |-> id, sort_order |-> Null]

(* categories.find((c) => c.id === id) || placeholder, line 691 *)
ResolveCategory(categories, id) ==
  IF \E i \in 1 .. Len(categories) : categories[i].id = id
    THEN categories[CHOOSE i \in 1 .. Len(categories) :
                      /\ categories[i].id = id
                      /\ \A j \in 1 .. i - 1 : categories[j].id # id]
    ELSE PlaceholderCategory(id)

(* orderedCategories of the payload, lines 690-702 *)
orderedCategories ==
  SortCategories([i \in 1 .. Len(categoryIds) |-> ResolveCategory(catalog, categoryIds[i])])

IdSet(categories) == {categories[i].id : i \in 1 .. Len(categories)}

(* the ids of the team stats the fold reads in matchup m: those of the     *)
(* located team nodes of a matchup that passes the two gates                *)
ObservedIds(m) ==
  IF ~Usable(m) THEN {}
  ELSE LET keys == extractTwoTeamKeysFromMatchup(m)
           located == {findTeamNode(m, keys[i]) : i \in 1 .. 2} \ {0}
       IN {findYahooValue(m.teamNodes[n].stats[j], "stat_id").s :
             <<n, j>> \in {<<n1, j1>> \in located \X (1 .. 3) :
                            /\ j1 <= Len(m.teamNodes[n1].stats)
                            /\ Truthy(findYahooValue(m.teamNodes[n1].stats[j1], "stat_id"))}}

(* every id once; the catalog's own category for a catalog id and the     *)
(* placeholder for every other id                                          *)
WellFormedCategories(list, cat) ==
  /\ \A i, j \in 1 .. Len(list) : list[i].id = list[j].id => i = j
  /\ \A i \in 1 .. Len(list) :
       IF list[i].id \in IdSet(cat)
         THEN \E k \in 1 .. Len(cat) : cat[k] = list[i]
         ELSE list[i] = [id |-> list[i].id, name |-> list[i].id,
                         display_name |-> list[i].id, sort_order |-> Null]

(* C17: the category list of collectSeasonStats starts as the catalog's    *)
(* ids, grows by exactly the ids of the team stats of each folded matchup, *)
(* holds each id once, carries the catalog's own category for a catalog id *)
(* and the placeholder {id, name = id, display_name = id, sort_order =      *)
(* null} for every other id.                                               *)
C17_CategoryUniverse ==
  [][ (SeasonRequest /\ nFolded' = nFolded + 1) =>
        \A before \in {orderedCategories}, after \in {orderedCategories'} :
          /\ nFolded = 0 => IdSet(before) = IdSet(catalog)
          /\ IdSet(after) = IdSet(before) \cup ObservedIds(cur')
          /\ WellFormedCategories(after, catalog)
    ]_vars

(* the catalog knows 9, the data brought 5 *)
C17_Witness ==
  /\ SeasonRequest /\ nFolded > 0 /\ catalog # <<>>
  /\ Len(orderedCategories) = 2
  /\ \E i \in 1 .. 2 : orderedCategories[i] = PlaceholderCategory("5")
  /\ \E i \in 1 .. 2 : orderedCategories[i] = catalog[1]

-----------------------------------------------------------------------------
(* The consistency score *)

(* C18 as claimed: the score of a margin series is null exactly when the   *)
(* series has fewer than 2 samples or all its values are equal; the series *)
(* [3, -3] has mean 0 and a score that is not null and is 0.               *)
C18_SharpeNullIffNoSpread ==
  (fn = "sharpe" /\ ~out.v.absent) =>
    LET values == arg.value.values
    IN /\ out.v.sharpeIsNull <=>
            (Len(values) < 2 \/ \A i, j \in 1 .. Len(values) : values[i] = values[j])
       /\ values = <<3 * Unit, -3 * Unit>> =>
            (out.v.mean = 0 /\ ~out.v.sharpeIsNull /\ out.v.sharpeSign = 0)

-----------------------------------------------------------------------------
(* The payload of GET /api/weekly-matrix, lines 791-802 *)

(* totals and counts, line 793: per team name in order of first row, the   *)
(* sum of its points and the number of its rows                            *)
RECURSIVE TeamTotals(_, _)
TeamTotals(acc, rws) ==
  IF rws = <<>> THEN acc
  ELSE LET r == Head(rws)
           at == {i \in 1 .. Len(acc) : acc[i].team = r.team}
       IN IF at = {}
            THEN TeamTotals(Append(acc, [team |-> r.team, sum |-> r.points, count |-> 1]),
                            Tail(rws))
            ELSE TeamTotals([i \in 1 .. Len(acc) |->
                               IF i \in at
                                 THEN [acc[i] EXCEPT !.sum = @ + r.points, !.count = @ + 1]
                                 ELSE acc[i]],
                            Tail(rws))

(* .sort((a, b) => b[1] - a[1]) on the averages, line 794 *)
RECURSIVE InsertByAverage(_, _)
InsertByAverage(sorted, t) ==
  IF sorted = <<>> THEN <<t>>
  ELSE LET last == sorted[Len(sorted)]
       IN IF t.sum * last.count > last.sum * t.count
            THEN Append(InsertByAverage(SubSeq(sorted, 1, Len(sorted) - 1), t), last)
            ELSE Append(sorted, t)

RECURSIVE SortByAverage(_, _)
SortByAverage(sorted, rest) ==
  IF rest = <<>> THEN sorted
  ELSE SortByAverage(InsertByAverage(sorted, Head(rest)), Tail(rest))

(* [...new Set(rows.map((r) => r.week))].sort((a, b) => a - b), line 795 *)
RECURSIVE Ascending(_)
Ascending(S) ==
  IF S = {} THEN <<>>
  ELSE LET least == CHOOSE x \in S : \A y \in S : x <= y
       IN <<least>> \o Ascending(S \ {least})

(* rows.find((x) => x.team === team && x.week === week): its index or 0 *)
FindRow(rws, team, week) ==
  LET at == {i \in 1 .. Len(rws) : rws[i].team = team /\ rws[i].week = week}
  IN IF at = {} THEN 0 ELSE CHOOSE i \in at : \A j \in at : i <= j

MatrixPayload(rws) ==
  LET sorted == SortByAverage(<<>>, TeamTotals(<<>>, rws))
      teams == [i \in 1 .. Len(sorted) |-> sorted[i].team]
      weeksArr == Ascending({rws[i].week : i \in 1 .. Len(rws)})
      Cells(Field(_), empty) ==
        [i \in 1 .. Len(teams) |->
           [j \in 1 .. Len(weeksArr) |->
              LET k == FindRow(rws, teams[i], weeksArr[j])
              IN IF k = 0 THEN empty ELSE Field(rws[k])]]
      Points(r) == Num(r.points)
      Result(r) == Str(r.result)
      OppPoints(r) == Num(r.opp_points)
      OppName(r) == Str(r.opp_name)
  IN [teams |-> teams, weeks |-> weeksArr,
      points |-> Cells(Points, Null), outcome |-> Cells(Result, Null),
      oppPoints |-> Cells(OppPoints, Null), oppName |-> Cells(OppName, Str(""))]

MatrixResponse == endpoint = "weekly-matrix" /\ pc = "done" /\ status = 200

(* C19 as claimed: the four matrices have |teams| rows of |weeks| columns, *)
(* every row of a decided matchup is found in the cell of its team and its *)
(* week with its points, result, opp_points and opp_name, and a cell       *)
(* without a row holds null ("" for oppName).                              *)
C19_MatrixAligned ==
  MatrixResponse =>
    \A p \in {MatrixPayload(rows)} :
      /\ \A mx \in {p.points, p.outcome, p.oppPoints, p.oppName} :
           /\ Len(mx) = Len(p.teams)
           /\ \A i \in 1 .. Len(mx) : Len(mx[i]) = Len(p.weeks)
      /\ \A k \in 1 .. Len(rows) :
           \E i \in 1 .. Len(p.teams), j \in 1 .. Len(p.weeks) :
             /\ p.teams[i] = rows[k].team /\ p.weeks[j] = rows[k].week
             /\ p.points[i][j] = Num(rows[k].points)
             /\ p.outcome[i][j] = Str(rows[k].result)
             /\ p.oppPoints[i][j] = Num(rows[k].opp_points)
             /\ p.oppName[i][j] = Str(rows[k].opp_name)
      /\ \A i \in 1 .. Len(p.teams), j \in 1 .. Len(p.weeks) :
           (\A k \in 1 .. Len(rows) :
              ~(rows[k].team = p.teams[i] /\ rows[k].week = p.weeks[j]))
           => /\ p.points[i][j] = Null /\ p.outcome[i][j] = Null
              /\ p.oppPoints[i][j] = Null /\ p.oppName[i][j] = Str("")

-----------------------------------------------------------------------------
(* the number of entries of a stat-winner list that satisfy Test *)
CountDetailed(det, Test(_)) == Cardinality({i \in 1 .. Len(det) : Test(det[i])})

(* C20 as claimed: for the matchup at hand with two team keys A and B and  *)
(* a stat_winners container, winsFromStatWinners returns as a, b and ties  *)
(* the number of extractStatWinnersDetailed entries that are untied with   *)
(* winner A, untied with winner B, and tied, and total is their sum.       *)
C20_DecidedCountsFoldDetailed ==
  \A keys \in {extractTwoTeamKeysFromMatchup(cur)} :
    (Len(keys) = 2 /\ ~cur.stat_winners.absent) =>
      \A sw \in {winsFromStatWinners(cur, keys[1], keys[2])},
         det \in {extractStatWinnersDetailed(cur)} :
        LET WonByA(e) == ~e.isTied /\ e.winnerKey = keys[1]
            WonByB(e) == ~e.isTied /\ e.winnerKey = keys[2]
            Tied(e) == e.isTied
        IN /\ ~sw.isNull
           /\ sw.a = CountDetailed(det, WonByA)
           /\ sw.b = CountDetailed(det, WonByB)
           /\ sw.ties = CountDetailed(det, Tied)
           /\ sw.total = sw.a + sw.b + sw.ties

-----------------------------------------------------------------------------
(* The margins of collectSeasonStats *)

(* the margin list of a team in a category, [] when it has none *)
MarginsOf(mbt, t, c) == Get(Get(mbt, t, EmptyMap), c, <<>>)

(* the parsed value of category c in the stat map of the team node of key *)
StatValueOf(m, key, c) ==
  Get(StatMapOf(m.teamNodes[findTeamNode(m, key)].stats, EmptyMap), c, 0)

(* the category ids present in the stat map of either team of m *)
StatIdsOfMatchup(m, keys) ==
  (DOMAIN StatMapOf(m.teamNodes[findTeamNode(m, keys[1])].stats, EmptyMap))
    \cup (DOMAIN StatMapOf(m.teamNodes[findTeamNode(m, keys[2])].stats, EmptyMap))

(* the step of C21: an aggregated matchup appends valueA - valueB to the   *)
(* list of A and valueB - valueA to the list of B for every category id in *)
(* either stat map and counts one game for it; every other list and count, *)
(* and every list and count of a matchup that is skipped, stays as it was  *)
MarginStep ==
  (SeasonRequest /\ nFolded' = nFolded + 1) =>
    \A m \in {cur'} :
      IF ~Aggregated(m)
        THEN marginsByTeam' = marginsByTeam /\ gamesByCategory' = gamesByCategory
        ELSE \A keys \in {extractTwoTeamKeysFromMatchup(m)} :
             \A ids \in {StatIdsOfMatchup(m, keys)} :
               /\ \A c \in ids :
                    /\ MarginsOf(marginsByTeam', keys[1], c) =
                         Append(MarginsOf(marginsByTeam, keys[1], c),
                                StatValueOf(m, keys[1], c) - StatValueOf(m, keys[2], c))
                    /\ MarginsOf(marginsByTeam', keys[2], c) =
                         Append(MarginsOf(marginsByTeam, keys[2], c),
                                StatValueOf(m, keys[2], c) - StatValueOf(m, keys[1], c))
                    /\ Get(gamesByCategory', c, 0) = Get(gamesByCategory, c, 0) + 1
               /\ \A c \in Cats \ ids :
                    /\ Get(gamesByCategory', c, 0) = Get(gamesByCategory, c, 0)
                    /\ \A t \in Teams : MarginsOf(marginsByTeam', t, c) = MarginsOf(marginsByTeam, t, c)
               /\ \A c \in Cats, t \in Teams \ {keys[1], keys[2]} :
                    MarginsOf(marginsByTeam', t, c) = MarginsOf(marginsByTeam, t, c)

(* after any fold the margins of a category sum to 0 over the teams and    *)
(* there are two of them for each of its games                             *)
MarginBalance ==
  \A c \in Cats \cup DOMAIN gamesByCategory :
    /\ SumOver(Teams, [t \in Teams |-> SumSeq(MarginsOf(marginsByTeam, t, c))]) = 0
    /\ SumOver(Teams, [t \in Teams |-> Len(MarginsOf(marginsByTeam, t, c))])
         = 2 * Get(gamesByCategory, c, 0)

(* C21: for every aggregated matchup and every category id present in     *)
(* either team's stat map, collectSeasonStats appends exactly one margin   *)
(* to each of the two teams' lists of that category (valueA - valueB and   *)
(* valueB - valueA, a missing value counting as 0) and increments          *)
(* gamesByCategory once; hence after any fold the margins of a category    *)
(* sum to 0 over the teams and number 2 * gamesByCategory[c].              *)
C21_MarginsMirrorGames == [][MarginStep]_vars /\ []MarginBalance

(* a team played two games in one category and one in another, with a      *)
(* margin other than 0                                                     *)
C21_Witness ==
  /\ SeasonRequest /\ nFolded = 2
  /\ \E c \in Cats : Get(gamesByCategory, c, 0) = 2
  /\ \E c \in Cats : Get(gamesByCategory, c, 0) = 1
  /\ \E t \in Teams, c \in Cats :
       Len(MarginsOf(marginsByTeam, t, c)) = 2 /\ MarginsOf(marginsByTeam, t, c)[1] # 0

-----------------------------------------------------------------------------
(* The matchups of a week payload *)

(* C23 as claimed: findMatchupsDeep returns every matchup node of the week *)
(* payload exactly once and nothing else, for an array-shaped and for a    *)
(* sentinel-keyed matchups container.                                      *)
C23_EveryMatchupOnce ==
  fn = "findMatchupsDeep" =>
    \A found \in {out.v.found} :
      /\ \A id \in 1 .. arg.value.count :
           Cardinality({i \in 1 .. Len(found) : found[i] = MatchupNode(id)}) = 1
      /\ Len(found) = arg.value.count

-----------------------------------------------------------------------------
(* The totals of collectSeasonStats *)

(* the total of a team in a category, 0 when it has none *)
TotalOf(tbt, t, c) == Get(Get(tbt, t, EmptyMap), c, 0)

(* the value a matchup adds to the total of team t in category c: its own  *)
(* parsed value when the matchup is aggregated and t is one of its keys    *)
AddedBy(m, t, c) ==
  IF ~Aggregated(m) THEN 0
  ELSE LET keys == extractTwoTeamKeysFromMatchup(m)
       IN IF t \in {keys[1], keys[2]} THEN StatValueOf(m, t, c) ELSE 0

(* C24: after collectSeasonStats folds any sequence of matchups, for every *)
(* category c totalsByCategory[c] is the sum over the teams of             *)
(* totalsByTeam[t][c], and a fold step changes the total of a team only by *)
(* the team's own value in a matchup of which it is one of the two keys.   *)
C24_CategoryTotalIsTeamSum ==
  /\ [](\A c \in Cats \cup DOMAIN totalsByCategory :
          Get(totalsByCategory, c, 0)
            = SumOver(Teams, [t \in Teams |-> TotalOf(totalsByTeam, t, c)]))
  /\ [][ (SeasonRequest /\ nFolded' = nFolded + 1) =>
           \A m \in {cur'} : \A t \in Teams, c \in Cats :
             TotalOf(totalsByTeam', t, c) = TotalOf(totalsByTeam, t, c) + AddedBy(m, t, c)
     ]_vars

(* two matchups were folded, a team played in both and another in one, and *)
(* the category total is made of the totals of three teams                 *)
C24_Witness ==
  /\ SeasonRequest /\ nFolded = 2
  /\ \E c \in Cats :
       /\ Cardinality({t \in Teams : TotalOf(totalsByTeam, t, c) # 0}) = 3
       /\ Get(totalsByCategory, c, 0) # 0
       /\ Len(MarginsOf(marginsByTeam, "t1", c)) = 2

-----------------------------------------------------------------------------
(* The outcome records of collectSeasonStats *)

(* the sum over the teams of one field of the outcome records of category c *)
OutcomeSum(c, field) ==
  SumOver(Teams, [t \in Teams |-> OutcomeOf(outcomesByTeam, t, c)[field]])

(* C25 as claimed: after any fold, for every category the wins of all      *)
(* teams equal the losses of all teams and the ties of all teams are even, *)
(* also after an entry whose winner key is neither team of its matchup.    *)
C25_WinsEqualLosses ==
  SeasonRequest =>
    \A c \in Cats :
      /\ OutcomeSum(c, "wins") = OutcomeSum(c, "losses")
      /\ OutcomeSum(c, "ties") % 2 = 0

-----------------------------------------------------------------------------
(* The bound of the week probe *)

(* at most to - from + 1 fetches, of the weeks from, from + 1, ... in turn; *)
(* the list strictly ascending by week, within [from, to], of weeks with    *)
(* at least one matchup                                                     *)
ProbeBounded ==
  /\ Len(fetched) <= to - from + 1
  /\ \A i \in 1 .. Len(fetched) : fetched[i] = from + i - 1
  /\ \A i \in 1 .. Len(weeks) :
       /\ weeks[i].week >= from /\ weeks[i].week <= to
       /\ weeks[i].matchups >= 1
       /\ i > 1 => weeks[i - 1].week < weeks[i].week

-----------------------------------------------------------------------------
(* The categories the analytics iterate over *)

(* the category ids with an outcome record or a win-equivalent entry *)
CreditedIds ==
  (DOMAIN winEquivalentsByCategory)
    \cup UNION { DOMAIN outcomesByTeam[t] : t \in DOMAIN outcomesByTeam }

(* C27 as claimed: in the payload of collectSeasonStats every category id  *)
(* with an outcome record in outcomesByTeam or an entry in                 *)
(* winEquivalentsByCategory is in the payload's category list, ids that    *)
(* occur only in stat_winners included.                                    *)
C27_CreditedIdsListed ==
  SeasonRequest => CreditedIds \subseteq IdSet(orderedCategories)

-----------------------------------------------------------------------------
(* The two folds *)

(* the accumulators of collectSeasonStats holding the totals and outcome   *)
(* records of GET /api/category-stats                                      *)
SeasonAccOf(tbt, obt) ==
  [EmptyAcc EXCEPT !.totalsByTeam = tbt, !.outcomesByTeam = obt]

(* C28 as claimed: from equal totals and outcome records, the fold of GET  *)
(* /api/category-stats and the fold of collectSeasonStats leave, for every *)
(* matchup, equal per-team per-category totals and equal outcome records   *)
(* (wins, losses, ties), also when one team's node cannot be located and   *)
(* for entries whose winner key matches neither team.                      *)
C28_FoldsAgree ==
  [][ (endpoint = "category-stats" /\ nFolded' = nFolded + 1) =>
        \A season \in {CollectMatchup(SeasonAccOf(csTotalsByTeam, csOutcomesByTeam), cur')} :
          \A t \in Teams, c \in Cats :
            /\ TotalOf(csTotalsByTeam', t, c) = TotalOf(season.totalsByTeam, t, c)
            /\ OutcomeOf(csOutcomesByTeam', t, c) = OutcomeOf(season.outcomesByTeam, t, c)
    ]_vars

-----------------------------------------------------------------------------
(* Failures and the caches *)

(* a call of collectSeasonStats or getStatCategories that has just failed *)
FailedCall ==
  calls' = calls + 1 /\ ret'.op \in {"seasonStats", "statCategories"} /\ ret'.kind = "error"

(* C29: when collectSeasonStats or getStatCategories fails (no weeks       *)
(* collected, or the settings fetch unparsable) the caches are left as     *)
(* they were before the call, no entry added, replaced or extended, and    *)
(* the next call with the same arguments computes again.                   *)
C29_FailureNotCached ==
  [][ /\ FailedCall => cache' = cache
      /\ (calls' = calls + 1 /\ ret.kind = "error"
            /\ ret'.op = ret.op /\ ret'.inputs = ret.inputs)
           => ret'.kind # "hit"
    ]_vars

(* a first call computed, its entry expired, and the second call failed    *)
(* and left the expired entry in place                                      *)
C29_Witness ==
  /\ calls = 2 /\ ret.op = "seasonStats" /\ ret.kind = "error"
  /\ \E key \in DOMAIN cache["seasonStats"] :
       /\ key = SeasonCacheKey(ret.inputs[1], ret.inputs[2], ret.inputs[3])
       /\ ~Live(cache["seasonStats"][key], now)

-----------------------------------------------------------------------------
(* The weekly rows *)

(* the two rows mirror each other for the decided counts sw *)
Mirrored(ra, rb, sw) ==
  /\ ra.week = rb.week
  /\ ra.points = sw.a /\ rb.points = sw.b
  /\ ra.points = rb.opp_points /\ rb.points = ra.opp_points
  /\ <<ra.result, rb.result>> \in {<<"W", "L">>, <<"L", "W">>, <<"T", "T">>}
  /\ ra.result = "W" <=> sw.a > sw.b
  /\ rb.result = "W" <=> sw.b > sw.a
  /\ ra.opp_name = rb.team /\ rb.opp_name = ra.team
  /\ ra.points + ra.opp_points <= sw.total

(* C30: every decided matchup contributes exactly two weekly rows, one per *)
(* team, that mirror each other: the points of each are the opp_points of  *)
(* the other, the results are (W, L), (L, W) or (T, T) with W exactly when *)
(* the team's decided wins exceed the opponent's, each opp_name is the     *)
(* other row's team, and points + opp_points is at most the decided total; *)
(* any other matchup contributes no row.                                   *)
C30_RowsMirror ==
  [][ (endpoint = "weekly-matrix" /\ nFolded' = nFolded + 1) =>
        \A m \in {cur'} :
          IF ~Usable(m) THEN rows' = rows
          ELSE \A keys \in {extractTwoTeamKeysFromMatchup(m)} :
                 /\ Len(rows') = Len(rows) + 2
                 /\ SubSeq(rows', 1, Len(rows)) = rows
                 /\ Mirrored(rows'[Len(rows) + 1], rows'[Len(rows) + 2],
                             winsFromStatWinners(m, keys[1], keys[2]))
    ]_vars

(* a won matchup and a drawn one, with names from the directory and from   *)
(* the team node                                                           *)
C30_Witness ==
  /\ endpoint = "weekly-matrix" /\ Len(rows) = 4
  /\ rows[1].result = "W" /\ rows[2].result = "L"
  /\ rows[3].result = "T" /\ rows[4].result = "T"
  /\ rows[1].team # rows[2].team
  /\ rows[3].points + rows[3].opp_points = 0

-----------------------------------------------------------------------------
(* Two concurrent calls of collectSeasonStats with the same cache key on a *)
(* cold cache. A call runs from one await to the next without interruption *)
(* and the two calls interleave at their awaits: getTeamDirectory, the     *)
(* scoreboard fetch of each week, the settings fetch of getStatCategories, *)
(* and the return of getStatCategories. Yahoo answers every fetch of a     *)
(* behaviour in the same way. Time stands still.                           *)

RaceCalls == {1, 2}
RaceRange == 1 .. 2
RaceLeague == leagueKeyForYear(2024)
RaceKey == SeasonCacheKey(RaceLeague, 1, Cardinality(RaceRange))

(* the matchups of a scoreboard week: none, or aggregated matchups *)
RacePool ==
  {m \in Matchups : Aggregated(m) /\ Len(m.stat_winners.list) = 2
                      /\ m.stat_winners.list[1].is_tied = Num(0)
                      /\ Len(m.teamNodes[1].stats) = 2}
RaceWeeks == {<<>>} \cup {<<m>> : m \in RacePool}
Upstreams ==
  [weeks : [RaceRange -> RaceWeeks], catalog : CatalogOptions, settingsOk : BOOLEAN,
   teamDir : {[k \in {"t1"} |-> "Alpha"]}]

NoLocal ==
  [w |-> 1, weeks |-> <<>>, sawAny |-> FALSE, ended |-> FALSE,
   teamDir |-> EmptyMap, categories |-> <<>>]
NotReturned == [kind |-> "none"]
Thrown(error) == [kind |-> "error", error |-> error]
Returned(payload) == [kind |-> "payload", payload |-> payload]

(* one iteration of the loop of fetchScoreboardWeeks on the matchups found *)
(* in the week, lines 420-428                                              *)
ProbeWeek(l, matchups) ==
  IF matchups # <<>>
  THEN [l EXCEPT !.weeks = Append(@, [week |-> l.w, matchups |-> matchups]),
                 !.sawAny = TRUE, !.w = @ + 1,
                 !.ended = l.w + 1 \notin RaceRange]
  ELSE IF l.sawAny THEN [l EXCEPT !.ended = TRUE]
  ELSE [l EXCEPT !.w = @ + 1, !.ended = l.w + 1 \notin RaceRange]

(* the matchups of the collected weeks in the order of the two loops *)
RECURSIVE MatchupsOfWeeks(_)
MatchupsOfWeeks(ws) ==
  IF ws = <<>> THEN <<>> ELSE Head(ws).matchups \o MatchupsOfWeeks(Tail(ws))

RECURSIVE FoldMatchups(_, _)
FoldMatchups(acc, ms) ==
  IF ms = <<>> THEN acc ELSE FoldMatchups(CollectMatchup(acc, Head(ms)), Tail(ms))

(* accumulators that live on in the cache entry and are shared by the calls *)
SharedAccumulators(categories, map) ==
  IF Has(map, RaceKey)
  THEN [map[RaceKey].value.acc EXCEPT !.categoryIds = IdsOf(categories)]
  ELSE [EmptyAcc EXCEPT !.categoryIds = IdsOf(categories)]

(* the Set and the six Maps a call creates for itself, lines 599-606 *)
FreshAccumulators(categories, map) == [EmptyAcc EXCEPT !.categoryIds = IdsOf(categories)]

(* the payload built from the locals of a call, lines 608-716 *)
PayloadOf(l, map) ==
  LET acc == FoldMatchups(FreshAccumulators(l.categories, map), MatchupsOfWeeks(l.weeks))
  IN [teamDir |-> l.teamDir, weeks |-> l.weeks,
      categories |-> SortCategories([i \in 1 .. Len(acc.categoryIds) |->
                                       ResolveCategory(l.categories, acc.categoryIds[i])]),
      acc |-> acc, from |-> 1, to |-> Cardinality(RaceRange)]

InitRace ==
  /\ upstream \in Upstreams
  /\ rpc = [p \in RaceCalls |-> "idle"]
  /\ local = [p \in RaceCalls |-> NoLocal]
  /\ returned = [p \in RaceCalls |-> NotReturned]
  /\ ReqIdle /\ FetchIdle /\ CacheIdle /\ WalkIdle

RaceFrame ==
  UNCHANGED <<upstream, now, calls, ret, accesses, reqVars, accVars, epVars, fetchVars, walkVars>>

Goto(p, stage) == rpc' = [rpc EXCEPT ![p] = stage]

(* the call starts: the cache lookup of lines 590-592, then the await of   *)
(* getTeamDirectory                                                        *)
Enter(p) ==
  /\ rpc[p] = "idle"
  /\ IF Hit(cache["seasonStats"], RaceKey)
     THEN /\ returned' = [returned EXCEPT ![p] = Returned(cache["seasonStats"][RaceKey].value)]
          /\ Goto(p, "done")
          /\ UNCHANGED computes
     ELSE /\ Goto(p, "teams")
          /\ computes' = Count(computes, "seasonStats", 1)
          /\ UNCHANGED returned
  /\ UNCHANGED <<local, cache>>
  /\ RaceFrame

(* getTeamDirectory returns, line 594 *)
TeamsReturn(p) ==
  /\ rpc[p] = "teams"
  /\ local' = [local EXCEPT ![p].teamDir = upstream.teamDir]
  /\ Goto(p, "weeks")
  /\ UNCHANGED <<returned, cache, computes>>
  /\ RaceFrame

(* the scoreboard fetch of week w returns; after the last one the call     *)
(* throws "no data" or goes on into getStatCategories, whose cache lookup  *)
(* precedes its first await, lines 595-598 and 433-434                     *)
WeekReturn(p) ==
  /\ rpc[p] = "weeks"
  /\ LET l == ProbeWeek(local[p], upstream.weeks[local[p].w])
     IN IF ~l.ended
        THEN /\ local' = [local EXCEPT ![p] = l]
             /\ UNCHANGED <<rpc, returned>>
        ELSE IF l.weeks = <<>>
        THEN /\ local' = [local EXCEPT ![p] = l]
             /\ returned' = [returned EXCEPT ![p] = Thrown("no data")]
             /\ Goto(p, "done")
        ELSE IF Hit(cache["statCategories"], RaceLeague)
        THEN /\ local' = [local EXCEPT ![p] =
                            [l EXCEPT !.categories = cache["statCategories"][RaceLeague].value]]
             /\ Goto(p, "fold")
             /\ UNCHANGED returned
        ELSE /\ local' = [local EXCEPT ![p] = l]
             /\ Goto(p, "settings")
             /\ UNCHANGED returned
  /\ UNCHANGED <<cache, computes>>
  /\ RaceFrame

(* the settings fetch returns: getStatCategories throws or stores and      *)
(* returns the catalog, lines 440-486                                      *)
SettingsReturn(p) ==
  /\ rpc[p] = "settings"
  /\ IF upstream.settingsOk
     THEN /\ cache' = [cache EXCEPT !["statCategories"] =
                         Put(@, RaceLeague, [value |-> upstream.catalog,
                                             until |-> now + CategoriesTtl])]
          /\ local' = [local EXCEPT ![p].categories = upstream.catalog]
          /\ Goto(p, "fold")
          /\ UNCHANGED returned
     ELSE /\ returned' = [returned EXCEPT ![p] = Thrown("settings fetch")]
          /\ Goto(p, "done")
          /\ UNCHANGED <<cache, local>>
  /\ UNCHANGED computes
  /\ RaceFrame

(* getStatCategories has returned: the fold, the cache write and the       *)
(* return, lines 599-723, with no await in between                         *)
FoldAndStore(p) ==
  /\ rpc[p] = "fold"
  /\ \E payload \in {PayloadOf(local[p], cache["seasonStats"])} :
       /\ cache' = [cache EXCEPT !["seasonStats"] =
                      Put(@, RaceKey, [value |-> payload, until |-> now + SeasonStatsTtl])]
       /\ returned' = [returned EXCEPT ![p] = Returned(payload)]
  /\ Goto(p, "done")
  /\ UNCHANGED <<local, computes>>
  /\ RaceFrame

NextRace ==
  \/ \E p \in RaceCalls : Enter(p)
  \/ \E p \in RaceCalls : TeamsReturn(p)
  \/ \E p \in RaceCalls : WeekReturn(p)
  \/ \E p \in RaceCalls : SettingsReturn(p)
  \/ \E p \in RaceCalls : FoldAndStore(p)

SpecRace == InitRace /\ [][NextRace]_vars

(* what a single call, alone on a cold cache, leaves in its locals *)
RECURSIVE ProbeAlone(_, _)
ProbeAlone(l, u) == IF l.ended THEN l ELSE ProbeAlone(ProbeWeek(l, u.weeks[l.w]), u)

(* what a single call, alone on a cold cache, returns or throws *)
AloneResult(u) ==
  LET l == ProbeAlone([NoLocal EXCEPT !.teamDir = u.teamDir], u)
  IN IF l.weeks = <<>> THEN Thrown("no data")
     ELSE IF ~u.settingsOk THEN Thrown("settings fetch")
     ELSE Returned(PayloadOf([l EXCEPT !.categories = u.catalog], EmptyMap))

(* C22: for any interleaving at their awaits of two concurrent calls of    *)
(* collectSeasonStats with the same cache key on a cold cache, each call   *)
(* returns or throws what a single call would (its fold is its own), and   *)
(* the cache entry, whenever there is one, is the complete payload a       *)
(* single call would produce.                                              *)
C22_ConcurrentCallsAgree ==
  upstream # <<>> =>
    \A alone \in {AloneResult(upstream)} :
      /\ \A p \in RaceCalls : returned[p].kind # "none" => returned[p] = alone
      /\ \A key \in DOMAIN cache["seasonStats"] :
           /\ key = RaceKey
           /\ alone.kind = "payload"
           /\ cache["seasonStats"][key].value = alone.payload

(* both calls recomputed, and both returned the payload of two weeks *)
C22_Witness ==
  /\ upstream # <<>>
  /\ computes["seasonStats"] = 2
  /\ \A p \in RaceCalls :
       /\ rpc[p] = "done" /\ returned[p].kind = "payload"
       /\ Len(returned[p].payload.weeks) = 2
  /\ Has(cache["seasonStats"], RaceKey)

====
